---------------------------- MODULE CanChannelProofs ----------------------------
(***************************************************************************)
(* A connected socket is a pair of first-in first-out channels: each step  *)
(* of CanAbstractSocket is a step of FrameChannel or changes nothing of    *)
(* it, in every nesting of slots, for any sizes and bounds, also through   *)
(* failed reads, writes, connects and closes.                              *)
(***************************************************************************)
EXTENDS CanConnectionProofs

-----------------------------------------------------------------------------
(* Sequences of frames and of their bytes *)

(* Concatenation, element by element, for a goal that is not about it *)
LEMMA Joined ==
    ASSUME NEW S, NEW s \in Seq(S), NEW t \in Seq(S)
    PROVE  /\ s \o t \in Seq(S) /\ Len(s) \in Nat /\ Len(t) \in Nat
           /\ Len(s \o t) = Len(s) + Len(t)
           /\ \A i \in 1 .. Len(s) : (s \o t)[i] = s[i]
           /\ \A i \in 1 .. Len(t) : (s \o t)[Len(s) + i] = t[i]
<1>1. Len(s) \in Nat /\ Len(t) \in Nat
  OBVIOUS
<1>2. /\ s \o t \in Seq(S) /\ Len(s \o t) = Len(s) + Len(t)
      /\ \A i \in 1 .. Len(s) + Len(t) :
            (s \o t)[i] = IF i <= Len(s) THEN s[i] ELSE t[i - Len(s)]
  BY ConcatProperties
<1>3. ASSUME NEW i \in 1 .. Len(t) PROVE (s \o t)[Len(s) + i] = t[i]
  <2>1. Len(s) + i \in 1 .. Len(s) + Len(t) /\ ~(Len(s) + i <= Len(s))
        /\ (Len(s) + i) - Len(s) = i
    BY <1>1
  <2> QED
    BY <1>2, <2>1
<1>4. ASSUME NEW i \in 1 .. Len(s) PROVE (s \o t)[i] = s[i]
  <2>1. i \in 1 .. Len(s) + Len(t) /\ i <= Len(s)
    BY <1>1
  <2> QED
    BY <1>2, <2>1
<1> QED
  BY <1>1, <1>2, <1>3, <1>4

(* First and Drop cut a sequence in two *)
LEMMA CutInTwo ==
    ASSUME NEW S, NEW s \in Seq(S), NEW n \in 0 .. Len(s)
    PROVE  /\ First(s, n) \in Seq(S) /\ Drop(s, n) \in Seq(S) /\ First(s, n) \o Drop(s, n) = s
           /\ Len(First(s, n)) = n /\ Len(Drop(s, n)) = Len(s) - n
<1>1. Len(s) \in Nat /\ n \in Int /\ 0 <= n /\ n <= Len(s)
  BY LenProperties
<1>2. First(s, n) \in Seq(S) /\ Drop(s, n) \in Seq(S)
  BY <1>1, CutType
<1>3. First(s, n) \o Drop(s, n) = SubSeq(s, 1, Len(s))
  <2>1. 1 \in 1 .. Len(s) + 1 /\ n \in 1 - 1 .. Len(s) /\ Len(s) \in n .. Len(s)
    BY <1>1
  <2>2. SubSeq(s, 1, n) \o SubSeq(s, n + 1, Len(s)) = SubSeq(s, 1, Len(s))
    BY <2>1, ConcatAdjacentSubSeq
  <2> QED
    BY <2>2 DEF First, Drop
<1>4. SubSeq(s, 1, Len(s)) = s
  BY SubSeqFull
<1>5. Len(First(s, n)) = n
  BY <1>1 DEF First
<1>6. Len(First(s, n) \o Drop(s, n)) = Len(First(s, n)) + Len(Drop(s, n))
  BY <1>2, ConcatProperties
<1>7. Len(Drop(s, n)) \in Nat
  BY <1>2, LenProperties
<1>8. First(s, n) \o Drop(s, n) = s
  BY <1>3, <1>4, Zenon
<1>9. Len(s) = n + Len(Drop(s, n))
  BY <1>5, <1>6, <1>8, Zenon
<1>10. Len(Drop(s, n)) = Len(s) - n
  <2>1. \A a, b, c \in Int : a = b + c => c = a - b
    OBVIOUS
  <2>2. Len(Drop(s, n)) \in Int /\ Len(s) \in Int
    BY <1>1, <1>7
  <2> QED
    BY <1>1, <1>9, <2>1, <2>2, Zenon
<1> QED
  BY <1>2, <1>5, <1>8, <1>10, Zenon

LEMMA CancelFront ==
    ASSUME NEW S, NEW a \in Seq(S), NEW s \in Seq(S), NEW t \in Seq(S), a \o s = a \o t
    PROVE  s = t
<1>1. /\ Len(a) \in Nat /\ Len(s) \in Nat /\ Len(a \o s) = Len(a) + Len(s)
      /\ \A i \in 1 .. Len(s) : (a \o s)[Len(a) + i] = s[i]
  BY Joined
<1>2. /\ Len(t) \in Nat /\ Len(a \o t) = Len(a) + Len(t)
      /\ \A i \in 1 .. Len(t) : (a \o t)[Len(a) + i] = t[i]
  BY Joined
<1>3. Len(s) = Len(t)
  BY <1>1, <1>2
<1> QED
  BY <1>1, <1>2, <1>3, SeqEqual

(* What First and Drop take off the front of a concatenation *)
LEMMA CutFront ==
    ASSUME NEW S, NEW s \in Seq(S), NEW t \in Seq(S), NEW n \in 0 .. Len(s)
    PROVE  /\ First(s \o t, n) = First(s, n)
           /\ Drop(s \o t, n) = Drop(s, n) \o t
<1> DEFINE a == First(s, n)
           b == Drop(s, n)
<1>1. a \in Seq(S) /\ b \in Seq(S) /\ a \o b = s /\ Len(a) = n /\ n \in Nat
  <2>1. n \in Nat
    BY LenProperties
  <2> QED
    BY <2>1, CutInTwo, Zenon
<1>2. s \o t \in Seq(S) /\ Len(s \o t) = Len(s) + Len(t) /\ Len(s) \in Nat /\ Len(t) \in Nat
  BY Joined
<1>3. n \in 0 .. Len(s \o t)
  BY <1>1, <1>2
<1> DEFINE c == First(s \o t, n)
           d == Drop(s \o t, n)
<1>4. c \in Seq(S) /\ d \in Seq(S) /\ c \o d = s \o t /\ Len(c) = n
  BY <1>2, <1>3, CutInTwo
<1> HIDE DEF a, b, c, d
<1>5. b \o t \in Seq(S) /\ a \o (b \o t) = s \o t
  <2>1. b \o t \in Seq(S)
    BY <1>1, ConcatProperties, Zenon
  <2>2. (a \o b) \o t = a \o (b \o t)
    <3>1. \A x, y, z \in Seq(S) : (x \o y) \o z = x \o (y \o z)
      BY ConcatAssociative, SMTT(60)
    <3> QED
      BY <1>1, <3>1, Zenon
  <2> QED
    BY <1>1, <2>1, <2>2
<1>6. c = a
  <2>1. ASSUME NEW i \in 1 .. n PROVE c[i] = a[i]
    <3>1. (c \o d)[i] = c[i]
      BY <1>4, Joined
    <3>2. (a \o (b \o t))[i] = a[i]
      BY <1>1, <1>5, Joined
    <3> QED
      BY <1>4, <1>5, <3>1, <3>2
  <2> QED
    BY <1>1, <1>4, <2>1, SeqEqual
<1>7. d = b \o t
  <2>1. a \o d = a \o (b \o t)
    BY <1>4, <1>5, <1>6, Zenon
  <2> QED
    BY <1>1, <1>4, <1>5, <2>1, CancelFront, Zenon
<1> QED
  BY <1>6, <1>7 DEF a, b, c, d

(* The bytes of a frame among others are at its place *)
LEMMA BytesAt ==
    ASSUME NEW S, NEW s \in Seq(S)
    PROVE  /\ Bytes(s) \in Seq(S) /\ Len(Bytes(s)) = FrameSize * Len(s)
           /\ FrameSize * Len(s) \in Nat
           /\ \A i \in 1 .. FrameSize * Len(s) :
                 /\ (i - 1) \div FrameSize \in 0 .. Len(s) - 1
                 /\ Bytes(s)[i] = s[((i - 1) \div FrameSize) + 1]
<1>1. Len(s) \in Nat /\ FrameSize \in Nat \ {0}
  BY FrameSizeAssumption, LenProperties
<1>2. FrameSize * Len(s) \in Nat
  BY <1>1
<1>3. ASSUME NEW i \in 1 .. FrameSize * Len(s)
      PROVE  (i - 1) \div FrameSize \in 0 .. Len(s) - 1
  <2> DEFINE q == (i - 1) \div FrameSize
  <2>1. i \in Nat /\ 1 <= i /\ i <= FrameSize * Len(s)
    BY <1>2
  <2>2. q \in Int /\ FrameSize * q <= i - 1 /\ i - 1 < FrameSize * (q + 1)
    BY <1>1, <2>1
  <2>3. 0 <= q
    BY <1>1, <2>1, <2>2
  <2>4. q < Len(s)
    BY <1>1, <2>1, <2>2
  <2> QED
    BY <1>1, <2>2, <2>3, <2>4
<1>4. \A i \in 1 .. FrameSize * Len(s) : Bytes(s)[i] = s[((i - 1) \div FrameSize) + 1]
  BY DEF Bytes
<1>5. Bytes(s) \in Seq(S)
  BY BytesType
<1>6. Len(Bytes(s)) = FrameSize * Len(s)
  BY <1>1, BytesLength
<1> QED
  BY <1>2, <1>3, <1>4, <1>5, <1>6

LEMMA Distributes == \A k, a, b \in Int : k * (a + b) = k * a + k * b
  BY SMTT(60)

(* Dividing behind a multiple *)
LEMMA DivBehind ==
    ASSUME NEW f \in Nat \ {0}, NEW m \in Nat, NEW j \in Nat
    PROVE  (f * m + j) \div f = m + (j \div f)
<1> DEFINE q == j \div f
           p == f * m
<1>1. q \in Int /\ f * q <= j /\ j < f * (q + 1)
  OBVIOUS
<1>2. p \in Int /\ f * (m + q) = p + f * q /\ f * ((m + q) + 1) = p + f * (q + 1)
  <2>1. f \in Int /\ m \in Int /\ q \in Int /\ q + 1 \in Int
    BY <1>1
  <2>2. (m + q) + 1 = m + (q + 1)
    BY <2>1
  <2> HIDE DEF q
  <2>3. f * (m + q) = f * m + f * q /\ f * (m + (q + 1)) = f * m + f * (q + 1)
    BY <2>1, Distributes, Zenon
  <2>4. f * m \in Int
    BY <2>1
  <2> QED
    BY <2>2, <2>3, <2>4, Zenon
<1> HIDE DEF q, p
<1> DEFINE r == m + q
           n == p + j
<1>3. r \in Int /\ n \in Int /\ f * r <= n /\ n < f * (r + 1)
  <2>1. f * q \in Int /\ f * (q + 1) \in Int
    BY <1>1
  <2>2. r \in Int /\ n \in Int
    BY <1>1, <1>2
  <2> QED
    BY <1>1, <1>2, <2>1, <2>2
<1> HIDE DEF r, n
<1>4. n \div f = r
  BY <1>3
<1> QED
  BY <1>4 DEF r, n, p, q

LEMMA BytesConcat ==
    ASSUME NEW S, NEW s \in Seq(S), NEW t \in Seq(S)
    PROVE  Bytes(s \o t) = Bytes(s) \o Bytes(t)
<1> DEFINE m == Len(s)
           n == Len(t)
           a == FrameSize * m
           b == FrameSize * n
<1>1. /\ m \in Nat /\ n \in Nat /\ Len(s \o t) = m + n /\ s \o t \in Seq(S)
      /\ \A i \in 1 .. m : (s \o t)[i] = s[i]
      /\ \A i \in 1 .. n : (s \o t)[m + i] = t[i]
  BY Joined
<1>2. FrameSize \in Nat \ {0}
  BY FrameSizeAssumption
<1>3. /\ Bytes(s) \in Seq(S) /\ Len(Bytes(s)) = a /\ a \in Nat
      /\ \A i \in 1 .. a : /\ (i - 1) \div FrameSize \in 0 .. m - 1
                           /\ Bytes(s)[i] = s[((i - 1) \div FrameSize) + 1]
  BY BytesAt
<1>4. /\ Bytes(t) \in Seq(S) /\ Len(Bytes(t)) = b /\ b \in Nat
      /\ \A i \in 1 .. b : /\ (i - 1) \div FrameSize \in 0 .. n - 1
                           /\ Bytes(t)[i] = t[((i - 1) \div FrameSize) + 1]
  BY BytesAt
<1>5. FrameSize * (m + n) = a + b
  BY <1>1, <1>2, Distributes
<1>6. /\ Bytes(s \o t) \in Seq(S) /\ Len(Bytes(s \o t)) = a + b
      /\ \A i \in 1 .. a + b : Bytes(s \o t)[i] = (s \o t)[((i - 1) \div FrameSize) + 1]
  <2>1. /\ Bytes(s \o t) \in Seq(S) /\ Len(Bytes(s \o t)) = FrameSize * Len(s \o t)
        /\ \A i \in 1 .. FrameSize * Len(s \o t) :
              Bytes(s \o t)[i] = (s \o t)[((i - 1) \div FrameSize) + 1]
    BY <1>1, BytesAt
  <2>2. FrameSize * Len(s \o t) = a + b
    BY <1>1, <1>5
  <2> QED
    BY <2>1, <2>2
<1>7. /\ Bytes(s) \o Bytes(t) \in Seq(S) /\ Len(Bytes(s) \o Bytes(t)) = a + b
      /\ \A i \in 1 .. a : (Bytes(s) \o Bytes(t))[i] = Bytes(s)[i]
      /\ \A i \in 1 .. b : (Bytes(s) \o Bytes(t))[a + i] = Bytes(t)[i]
  <2> DEFINE u == Bytes(s)
             v == Bytes(t)
  <2>1. u \in Seq(S) /\ v \in Seq(S) /\ Len(u) = a /\ Len(v) = b
    BY <1>3, <1>4
  <2> HIDE DEF u, v
  <2>2. /\ u \o v \in Seq(S) /\ Len(u \o v) = Len(u) + Len(v)
        /\ \A i \in 1 .. Len(u) : (u \o v)[i] = u[i]
        /\ \A i \in 1 .. Len(v) : (u \o v)[Len(u) + i] = v[i]
    <3>1. u \in Seq(S) /\ v \in Seq(S)
      BY <2>1
    <3> QED
      BY <3>1, Joined
  <2>3. /\ u \o v \in Seq(S) /\ Len(u \o v) = a + b
        /\ \A i \in 1 .. a : (u \o v)[i] = u[i]
        /\ \A i \in 1 .. b : (u \o v)[a + i] = v[i]
    BY <2>1, <2>2, Zenon
  <2> QED
    BY <2>3 DEF u, v
<1>8. ASSUME NEW i \in 1 .. a PROVE Bytes(s \o t)[i] = (Bytes(s) \o Bytes(t))[i]
  <2> DEFINE q == (i - 1) \div FrameSize
  <2>1. q \in 0 .. m - 1 /\ Bytes(s)[i] = s[q + 1]
    BY <1>3
  <2>2. i \in 1 .. a + b
    BY <1>3, <1>4
  <2>3. Bytes(s \o t)[i] = (s \o t)[q + 1]
    BY <1>6, <2>2
  <2> HIDE DEF q
  <2>4. q + 1 \in 1 .. m
    BY <1>1, <2>1
  <2> QED
    BY <1>1, <1>7, <2>1, <2>3, <2>4
<1>9. ASSUME NEW i \in 1 .. b PROVE Bytes(s \o t)[a + i] = (Bytes(s) \o Bytes(t))[a + i]
  <2> DEFINE q == (i - 1) \div FrameSize
  <2>1. q \in 0 .. n - 1 /\ Bytes(t)[i] = t[q + 1]
    BY <1>4
  <2>2. a + i \in 1 .. a + b /\ (a + i) - 1 = a + (i - 1) /\ i - 1 \in Nat
    BY <1>3, <1>4
  <2>3. (a + (i - 1)) \div FrameSize = m + q
    BY <1>1, <1>2, <2>2, DivBehind
  <2>4. Bytes(s \o t)[a + i] = (s \o t)[(m + q) + 1]
    <3>1. Bytes(s \o t)[a + i] = (s \o t)[(((a + i) - 1) \div FrameSize) + 1]
      BY <1>6, <2>2
    <3> QED
      BY <2>2, <2>3, <3>1
  <2> HIDE DEF q
  <2>5. q + 1 \in 1 .. n /\ (m + q) + 1 = m + (q + 1)
    BY <1>1, <2>1
  <2> QED
    BY <1>1, <1>7, <2>1, <2>4, <2>5
<1>10. ASSUME NEW i \in 1 .. a + b PROVE Bytes(s \o t)[i] = (Bytes(s) \o Bytes(t))[i]
  <2>1. CASE i <= a
    BY <1>3, <1>8, <2>1
  <2>2. CASE ~(i <= a)
    <3>1. i - a \in 1 .. b /\ a + (i - a) = i
      BY <1>3, <1>4, <2>2
    <3> QED
      BY <1>9, <3>1
  <2> QED
    BY <2>1, <2>2
<1> QED
  BY <1>6, <1>7, <1>10, SeqEqual

LEMMA BytesOfOne ==
    ASSUME NEW S, NEW e \in S
    PROVE  Bytes(<<e>>) = [i \in 1 .. FrameSize |-> e]
<1>1. <<e>> \in Seq(S) /\ Len(<<e>>) = 1 /\ FrameSize * 1 = FrameSize /\ <<e>>[1] = e
  BY FrameSizeAssumption
<1>2. \A i \in 1 .. FrameSize * Len(<<e>>) :
        (i - 1) \div FrameSize \in 0 .. Len(<<e>>) - 1
  BY <1>1, BytesAt
<1>3. \A i \in 1 .. FrameSize : ((i - 1) \div FrameSize) + 1 = 1
  BY <1>1, <1>2
<1> QED
  BY <1>1, <1>3 DEF Bytes

(* What is behind the bytes of a failed read is taken off by its chop() *)
LEMMA ChopAdded ==
    ASSUME NEW S, NEW s \in Seq(S), NEW t \in Seq(S)
    PROVE  Chop(s \o t, Len(t)) = s
<1>1. /\ s \o t \in Seq(S) /\ Len(s) \in Nat /\ Len(t) \in Nat
      /\ Len(s \o t) = Len(s) + Len(t)
  BY Joined
<1>2. CASE Len(t) <= 0
  <2>1. t = <<>>
    BY <1>1, <1>2, EmptySeq
  <2>2. Chop(s \o t, Len(t)) = s \o t
    BY <1>2 DEF Chop
  <2> QED
    BY <2>1, <2>2, ConcatEmptySeq
<1>3. CASE Len(t) > 0 /\ Len(t) >= Len(s \o t)
  <2>1. s = <<>>
    BY <1>1, <1>3, EmptySeq
  <2> QED
    BY <1>1, <1>3, <2>1 DEF Chop
<1>4. CASE Len(t) > 0 /\ Len(t) < Len(s \o t)
  <2>1. Chop(s \o t, Len(t)) = First(s \o t, Len(s \o t) - Len(t))
    BY <1>1, <1>4 DEF Chop
  <2>2. Len(s \o t) - Len(t) = Len(s) /\ Len(s) \in 0 .. Len(s)
    BY <1>1
  <2>3. First(s \o t, Len(s)) = First(s, Len(s))
    BY <2>2, CutFront
  <2>4. First(s, Len(s)) = s
    BY SubSeqFull DEF First
  <2> QED
    BY <2>1, <2>2, <2>3, <2>4
<1> QED
  BY <1>1, <1>2, <1>3, <1>4

(* The numbers of frames *)
LEMMA IdsAt ==
    ASSUME NEW s \in Seq(Frame)
    PROVE  /\ Ids(s) \in Seq(Nat) /\ Len(Ids(s)) = Len(s)
           /\ \A i \in 1 .. Len(s) : Ids(s)[i] = s[i].id
<1>1. Len(s) \in Nat
  BY LenProperties
<1>2. \A i \in 1 .. Len(s) : s[i].id \in Nat
  <2>1. \A i \in 1 .. Len(s) : s[i] \in Frame
    BY ElementOfSeq
  <2> QED
    BY <2>1 DEF Frame
<1> QED
  BY <1>1, <1>2 DEF Ids

LEMMA IdsConcat ==
    ASSUME NEW s \in Seq(Frame), NEW t \in Seq(Frame)
    PROVE  Ids(s \o t) = Ids(s) \o Ids(t)
<1>1. /\ s \o t \in Seq(Frame) /\ Len(s) \in Nat /\ Len(t) \in Nat
      /\ Len(s \o t) = Len(s) + Len(t)
      /\ \A i \in 1 .. Len(s) : (s \o t)[i] = s[i]
      /\ \A i \in 1 .. Len(t) : (s \o t)[Len(s) + i] = t[i]
  BY Joined
<1>2. /\ Ids(s) \in Seq(Nat) /\ Len(Ids(s)) = Len(s)
      /\ \A i \in 1 .. Len(s) : Ids(s)[i] = s[i].id
  BY IdsAt
<1>3. /\ Ids(t) \in Seq(Nat) /\ Len(Ids(t)) = Len(t)
      /\ \A i \in 1 .. Len(t) : Ids(t)[i] = t[i].id
  BY IdsAt
<1>4. /\ Ids(s \o t) \in Seq(Nat) /\ Len(Ids(s \o t)) = Len(s) + Len(t)
      /\ \A i \in 1 .. Len(s) + Len(t) : Ids(s \o t)[i] = (s \o t)[i].id
  BY <1>1, IdsAt
<1> DEFINE j == Ids(s) \o Ids(t)
<1>5. /\ j \in Seq(Nat) /\ Len(j) = Len(s) + Len(t)
      /\ \A i \in 1 .. Len(s) : j[i] = Ids(s)[i]
      /\ \A i \in 1 .. Len(t) : j[Len(s) + i] = Ids(t)[i]
  <2>1. /\ j \in Seq(Nat) /\ Len(j) = Len(Ids(s)) + Len(Ids(t))
        /\ \A i \in 1 .. Len(Ids(s)) : j[i] = Ids(s)[i]
        /\ \A i \in 1 .. Len(Ids(t)) : j[Len(Ids(s)) + i] = Ids(t)[i]
    <3>1. Ids(s) \in Seq(Nat) /\ Ids(t) \in Seq(Nat)
      BY <1>2, <1>3
    <3> QED
      BY <3>1, Joined
  <2>2. Len(Ids(s)) = Len(s) /\ Len(Ids(t)) = Len(t)
    BY <1>2, <1>3
  <2> QED
    BY <2>1, <2>2, Zenon
<1> HIDE DEF j
<1>6. ASSUME NEW i \in 1 .. Len(s) + Len(t) PROVE Ids(s \o t)[i] = j[i]
  <2>1. CASE i <= Len(s)
    <3>1. i \in 1 .. Len(s)
      BY <1>1, <2>1
    <3>2. (s \o t)[i] = s[i] /\ j[i] = Ids(s)[i] /\ Ids(s)[i] = s[i].id
      BY <1>1, <1>2, <1>5, <3>1, Zenon
    <3> QED
      BY <1>4, <3>2, Zenon
  <2>2. CASE ~(i <= Len(s))
    <3>1. i - Len(s) \in 1 .. Len(t) /\ Len(s) + (i - Len(s)) = i
      BY <1>1, <2>2
    <3>2. (s \o t)[i] = t[i - Len(s)] /\ j[i] = Ids(t)[i - Len(s)]
      BY <1>1, <1>5, <3>1
    <3> QED
      BY <1>3, <1>4, <3>1, <3>2
  <2> QED
    BY <2>1, <2>2
<1> QED
  BY <1>4, <1>5, <1>6, SeqEqual DEF j

LEMMA IdsCut ==
    ASSUME NEW s \in Seq(Frame), NEW n \in 0 .. Len(s)
    PROVE  Ids(First(s, n)) = First(Ids(s), n) /\ Ids(Drop(s, n)) = Drop(Ids(s), n)
<1> DEFINE a == First(s, n)
           b == Drop(s, n)
<1>1. a \in Seq(Frame) /\ b \in Seq(Frame) /\ a \o b = s /\ Len(a) = n
  BY CutInTwo
<1> HIDE DEF a, b
<1>2. Ids(s) = Ids(a) \o Ids(b)
  BY <1>1, IdsConcat
<1>3. Ids(a) \in Seq(Nat) /\ Ids(b) \in Seq(Nat) /\ Len(Ids(a)) = n /\ n \in 0 .. n
  <2>1. Len(a) \in Nat
    BY <1>1, LenProperties
  <2> QED
    BY <1>1, <2>1, IdsAt
<1>4. /\ First(Ids(a) \o Ids(b), n) = First(Ids(a), n)
      /\ Drop(Ids(a) \o Ids(b), n) = Drop(Ids(a), n) \o Ids(b)
  BY <1>3, CutFront
<1>5. First(Ids(a), n) = Ids(a) /\ Drop(Ids(a), n) = <<>>
  <2>1. SubSeq(Ids(a), 1, Len(Ids(a))) = Ids(a)
    BY <1>3, SubSeqFull
  <2>2. Drop(Ids(a), n) \in Seq(Nat) /\ Len(Drop(Ids(a), n)) = 0
    BY <1>3, CutInTwo
  <2> QED
    BY <1>3, <2>1, <2>2, EmptySeq DEF First
<1> QED
  BY <1>2, <1>3, <1>4, <1>5, ConcatEmptySeq DEF a, b

-----------------------------------------------------------------------------
(* What is asked of the application.  In the slot of a failed read the     *)
(* buffer ends in reserved bytes that are no data; reading there takes     *)
(* them for data, and bytes read on top of them are lost to the chop()     *)
(* that follows.  So that slot does not read, and does not let the         *)
(* notification code read; nor do the slots that its calls run.            *)
Receives == {"read", "readAll", "waitForReadyRead", "waitForBytesWritten", "events"}

(* The slots a call that does not receive may run, ...                     *)
SlotsOf(call) ==
    CASE call = "connect"    -> {"connecting", "apiError"}
      [] call = "close"      -> {"closing"}
      [] call = "flush"      -> {"bytesWritten", "writeError"}
      [] call = "clearError" -> {"apiError"}
      [] OTHER               -> {}

(* ... and those that may follow a slot before the call returns            *)
SlotsAfter(at) ==
    CASE at = "connecting"             -> {"connectError", "connected"}
      [] at = "connectError"           -> {"closing"}
      [] at = "closing"                -> {"closeError", "unconnected"}
      [] at = "closeError"             -> {"unconnected"}
      [] at = "bytesWritten"           -> {"writeError"}
      [] OTHER                         -> {}

KeepsOff(deaf) ==
    /\ ReadErrors # {} => "readError" \in deaf
    /\ \A at \in deaf : SlotsAfter(at) \subseteq deaf
    /\ \A c \in AppCalls :
        c[1] \in deaf => c[2] \notin Receives /\ SlotsOf(c[2]) \subseteq deaf

(* No slot that may run inside one of a failed read receives *)
ErrorSlotsDoNotRead == \E deaf \in SUBSET SlotLabels : KeepsOff(deaf)

Deaf == CHOOSE deaf \in SUBSET SlotLabels : KeepsOff(deaf)

LEMMA DeafKeepsOff ==
    ASSUME ErrorSlotsDoNotRead
    PROVE  Deaf \subseteq SlotLabels /\ KeepsOff(Deaf)
  BY DEF ErrorSlotsDoNotRead, Deaf

-----------------------------------------------------------------------------
(* The inductive invariant: there is at most one slot of a failed read on  *)
(* the stack, and above it only slots that do not receive; and there is no *)
(* queue without a descriptor.                                             *)
Unmarked(s) == Avoids(s, {"readError"})

MarkedAt(s, k, n) ==
    /\ s[k].at = "readError" /\ s[k].chop = n
    /\ \A i \in 1 .. k : s[i].at \in Deaf
    /\ \A i \in 1 .. Len(s) : s[i].at = "readError" => i = k

Marked(s, n) == \E k \in 1 .. Len(s) : MarkedAt(s, k, n)
Marks(s)     == \E n \in Int : Marked(s, n)

HInv ==
    /\ Unmarked(stack) \/ Marks(stack)
    /\ ~IsOpen(descriptor) => rxQueue = <<>>

(* Settled, of any buffer and stack *)
SettledOf(b, s) ==
    IF ~Occurs("readError", s) THEN b
    ELSE LET slot == CHOOSE i \in 1 .. Len(s) : s[i].at = "readError"
         IN  Chop(b, s[slot].chop)

LEMMA SettledUnmarked ==
    ASSUME NEW b, NEW s, Unmarked(s)
    PROVE  SettledOf(b, s) = b
  BY DEF Unmarked, Avoids, Occurs, SettledOf

LEMMA SettledMarked ==
    ASSUME NEW b, NEW s, NEW n \in Int, Marked(s, n)
    PROVE  SettledOf(b, s) = Chop(b, n)
<1>1. PICK k \in 1 .. Len(s) : MarkedAt(s, k, n)
  BY DEF Marked
<1> DEFINE slot == CHOOSE i \in 1 .. Len(s) : s[i].at = "readError"
<1>2. slot \in 1 .. Len(s) /\ s[slot].at = "readError"
  BY <1>1 DEF MarkedAt
<1>3. slot = k /\ s[k].chop = n
  BY <1>1, <1>2 DEF MarkedAt
<1>4. Occurs("readError", s)
  BY <1>2 DEF Occurs
<1> QED
  BY <1>3, <1>4 DEF SettledOf

LEMMA MarkedCons ==
    ASSUME NEW s \in Seq(Record), NEW r \in Record, NEW n \in Int, Marked(s, n),
           r.at \in Deaf, r.at # "readError"
    PROVE  Marked(Cons(r, s), n)
<1> DEFINE t == Cons(r, s)
<1>1. /\ Len(t) = Len(s) + 1 /\ t[1] = r /\ Len(s) \in Nat
      /\ \A i \in 1 .. Len(s) : t[i + 1] = s[i]
  BY ConsRecord
<1> HIDE DEF t
<1>2. PICK k \in 1 .. Len(s) : MarkedAt(s, k, n)
  BY DEF Marked
<1>3. k + 1 \in 1 .. Len(t) /\ t[k + 1] = s[k]
  BY <1>1, <1>2
<1>4. ASSUME NEW i \in 1 .. Len(t)
      PROVE  i = 1 \/ (i - 1 \in 1 .. Len(s) /\ t[i] = s[i - 1])
  <2>1. i = 1 \/ (i - 1 \in 1 .. Len(s) /\ (i - 1) + 1 = i)
    BY <1>1
  <2> QED
    BY <1>1, <2>1
<1>5. ASSUME NEW i \in 1 .. k + 1 PROVE t[i].at \in Deaf
  <2>1. i \in 1 .. Len(t) /\ (i = 1 \/ i - 1 \in 1 .. k)
    BY <1>1, <1>2
  <2> QED
    BY <1>1, <1>2, <1>4, <2>1 DEF MarkedAt
<1>6. ASSUME NEW i \in 1 .. Len(t), t[i].at = "readError" PROVE i = k + 1
  <2>1. i # 1
    BY <1>1, <1>6
  <2>2. i - 1 = k
    BY <1>2, <1>4, <1>6, <2>1 DEF MarkedAt
  <2> QED
    BY <1>1, <1>2, <2>2
<1>7. MarkedAt(t, k + 1, n)
  BY <1>2, <1>3, <1>5, <1>6 DEF MarkedAt
<1> QED
  BY <1>3, <1>7 DEF Marked, t

LEMMA MarkedStart ==
    ASSUME NEW s \in Seq(Record), NEW r \in Record, Unmarked(s),
           r.at = "readError", "readError" \in Deaf
    PROVE  Marked(Cons(r, s), r.chop)
<1> DEFINE t == Cons(r, s)
<1>1. /\ Len(t) = Len(s) + 1 /\ t[1] = r /\ Len(s) \in Nat
      /\ \A i \in 1 .. Len(s) : t[i + 1] = s[i]
  BY ConsRecord
<1> HIDE DEF t
<1>2. ASSUME NEW i \in 1 .. Len(t), t[i].at = "readError" PROVE i = 1
  <2>1. i = 1 \/ (i - 1 \in 1 .. Len(s) /\ (i - 1) + 1 = i)
    BY <1>1
  <2>2. i - 1 \in 1 .. Len(s) => t[(i - 1) + 1] = s[i - 1] /\ s[i - 1].at # "readError"
    BY <1>1 DEF Unmarked, Avoids
  <2> QED
    BY <1>2, <2>1, <2>2
<1>3. \A i \in 1 .. 1 : t[i].at \in Deaf
  BY <1>1
<1>4. MarkedAt(t, 1, r.chop)
  BY <1>1, <1>2, <1>3 DEF MarkedAt
<1>5. 1 \in 1 .. Len(t)
  BY <1>1
<1> QED
  BY <1>4, <1>5 DEF Marked, t

LEMMA MarkedParts ==
    ASSUME NEW s \in Seq(Record), NEW n \in Int, Marked(s, n)
    PROVE  /\ s # <<>> /\ Head(s).at \in Deaf
           /\ Head(s).at # "readError" => Marked(Tail(s), n)
           /\ Head(s).at = "readError" => Unmarked(Tail(s)) /\ Head(s).chop = n
<1>1. PICK k \in 1 .. Len(s) : MarkedAt(s, k, n)
  BY DEF Marked
<1>2. s # <<>> /\ Len(s) \in Nat /\ k \in Nat /\ 1 <= k /\ k <= Len(s)
  <2>1. Len(s) \in Nat
    BY LenProperties
  <2>2. k \in Nat /\ 1 <= k /\ k <= Len(s)
    BY <1>1, <2>1
  <2> QED
    BY <2>1, <2>2, EmptySeq
<1> DEFINE t == Tail(s)
<1>3. /\ Head(s) = s[1] /\ Len(t) = Len(s) - 1
      /\ \A i \in 1 .. Len(s) - 1 : t[i] = s[i + 1]
  BY <1>2, HeadTailProperties
<1> HIDE DEF t
<1>4. Head(s).at \in Deaf
  <2>1. 1 \in 1 .. k
    BY <1>2
  <2> QED
    BY <1>1, <1>3, <2>1 DEF MarkedAt
<1>5. ASSUME Head(s).at # "readError" PROVE Marked(t, n)
  <2>1. k # 1
    BY <1>1, <1>3, <1>5 DEF MarkedAt
  <2>2. k - 1 \in 1 .. Len(t) /\ t[k - 1] = s[k]
    <3>1. k - 1 \in 1 .. Len(s) - 1 /\ (k - 1) + 1 = k
      BY <1>2, <2>1
    <3> QED
      BY <1>3, <3>1
  <2>3. ASSUME NEW i \in 1 .. k - 1 PROVE t[i].at \in Deaf
    <3>1. i \in 1 .. Len(s) - 1 /\ i + 1 \in 1 .. k
      BY <1>2
    <3> QED
      BY <1>1, <1>3, <3>1 DEF MarkedAt
  <2>4. ASSUME NEW i \in 1 .. Len(t), t[i].at = "readError" PROVE i = k - 1
    <3>1. i \in 1 .. Len(s) - 1 /\ i + 1 \in 1 .. Len(s)
      BY <1>2, <1>3
    <3>2. i + 1 = k
      BY <1>1, <1>3, <2>4, <3>1 DEF MarkedAt
    <3> QED
      BY <1>2, <3>1, <3>2
  <2>5. MarkedAt(t, k - 1, n)
    BY <1>1, <2>2, <2>3, <2>4 DEF MarkedAt
  <2> QED
    BY <2>2, <2>5 DEF Marked
<1>6. ASSUME Head(s).at = "readError" PROVE Unmarked(t) /\ Head(s).chop = n
  <2>1. k = 1
    <3>1. 1 \in 1 .. Len(s)
      BY <1>2
    <3> QED
      BY <1>1, <1>3, <1>6, <3>1 DEF MarkedAt
  <2>2. ASSUME NEW i \in 1 .. Len(t) PROVE t[i].at # "readError"
    <3>1. i \in 1 .. Len(s) - 1 /\ i + 1 \in 1 .. Len(s) /\ i + 1 # 1
      BY <1>2, <1>3
    <3> QED
      BY <1>1, <1>3, <2>1, <3>1 DEF MarkedAt
  <2>3. Unmarked(t)
    BY <2>2 DEF Unmarked, Avoids
  <2> QED
    BY <1>1, <1>3, <2>1, <2>3 DEF MarkedAt
<1> QED
  BY <1>2, <1>4, <1>5, <1>6 DEF t

-----------------------------------------------------------------------------
(* What most steps do to the stack: the slot of a failed read, if there is *)
(* one, stays where it is, with its reserved bytes.                        *)
Carries(s, t) ==
    /\ Unmarked(s) => Unmarked(t)
    /\ \A n \in Int : Marked(s, n) => Marked(t, n)

LEMMA CarriesSelf == ASSUME NEW s PROVE Carries(s, s)
  BY DEF Carries

LEMMA MarksHead ==
    ASSUME NEW s \in Seq(Record), Marks(s)
    PROVE  s # <<>> /\ Head(s).at \in Deaf
  BY MarkedParts DEF Marks

LEMMA UnmarkedTail ==
    ASSUME NEW s \in Seq(Record), s # <<>>, Unmarked(s)
    PROVE  Unmarked(Tail(s)) /\ Head(s).at # "readError"
  BY AvoidsParts DEF Unmarked

LEMMA UnmarkedCons ==
    ASSUME NEW s \in Seq(Record), NEW r \in Record, Unmarked(s), r.at # "readError"
    PROVE  Unmarked(Cons(r, s))
<1>1. r.at \notin {"readError"}
  OBVIOUS
<1> QED
  BY <1>1, AvoidsCons DEF Unmarked

(* A function returns below the top, ... *)
LEMMA CarriesBelow ==
    ASSUME NEW s \in Seq(Record), s # <<>>, Head(s).at # "readError"
    PROVE  Carries(s, Tail(s)) /\ Tail(s) \in Seq(Record) /\ Head(s) \in Record
<1>1. Unmarked(s) => Unmarked(Tail(s))
  BY UnmarkedTail
<1>2. ASSUME NEW n \in Int, Marked(s, n) PROVE Marked(Tail(s), n)
  BY <1>2, MarkedParts
<1>3. Tail(s) \in Seq(Record) /\ Head(s) \in Record
  BY HeadTailProperties
<1> QED
  BY <1>1, <1>2, <1>3 DEF Carries

(* ... emits a signal, ... *)
LEMMA CarriesSlot ==
    ASSUME NEW s, NEW t \in Seq(Record), Carries(s, t), NEW r \in Record,
           r.at # "readError", Marks(s) => r.at \in Deaf
    PROVE  Carries(s, Cons(r, t))
<1>1. ASSUME Unmarked(s) PROVE Unmarked(Cons(r, t))
  BY <1>1, UnmarkedCons DEF Carries
<1>2. ASSUME NEW n \in Int, Marked(s, n) PROVE Marked(Cons(r, t), n)
  BY <1>2, MarkedCons DEF Carries, Marks
<1> QED
  BY <1>1, <1>2 DEF Carries

(* ... or goes on where Resume says *)
LEMMA CarriesResume ==
    ASSUME ErrorSlotsDoNotRead, NEW s, NEW t \in Seq(Record), Carries(s, t),
           NEW result \in BOOLEAN
    PROVE  Carries(s, Resume(result, t))
<1>1. ASSUME Unmarked(s) PROVE Unmarked(Resume(result, t))
  BY <1>1, AvoidsResume DEF Carries, Unmarked
<1>2. ASSUME NEW n \in Int, Marked(s, n) PROVE Marked(Resume(result, t), n)
  <2>1. Marked(t, n)
    BY <1>2 DEF Carries
  <2>2. t # <<>> /\ Head(t).at \in Deaf
    BY <2>1, MarkedParts
  <2>3. Head(t).at \in SlotLabels
    BY <2>2, DeafKeepsOff
  <2>4. Head(t).at \notin {"rr.read", "bw.write", "rr.write", "bw.read"}
    BY <2>3 DEF SlotLabels
  <2>5. Resume(result, t) = t
    BY <2>2, <2>4 DEF Resume
  <2> QED
    BY <2>1, <2>5
<1> QED
  BY <1>1, <1>2 DEF Carries

(* Then what the buffer holds of the channel stays the same.               *)
LEMMA CarriesSettled ==
    ASSUME NEW s, NEW t, NEW b, Carries(s, t), Unmarked(s) \/ Marks(s)
    PROVE  (Unmarked(t) \/ Marks(t)) /\ SettledOf(b, t) = SettledOf(b, s)
<1>1. CASE Unmarked(s)
  <2>1. Unmarked(t)
    BY <1>1 DEF Carries
  <2> QED
    BY <1>1, <2>1, SettledUnmarked
<1>2. CASE Marks(s)
  <2>1. PICK n \in Int : Marked(s, n)
    BY <1>2 DEF Marks
  <2>2. Marked(t, n)
    BY <2>1 DEF Carries
  <2>3. SettledOf(b, t) = Chop(b, n) /\ SettledOf(b, s) = Chop(b, n)
    BY <2>1, <2>2, SettledMarked
  <2> QED
    BY <2>2, <2>3 DEF Marks
<1> QED
  BY <1>1, <1>2

-----------------------------------------------------------------------------
(* The channel of a state *)
Inbox == Settled \o Bytes(rxQueue)

LEMMA SettledIs == Settled = SettledOf(buffer, stack)
  BY DEF Settled, SettledOf

LEMMA SettledIsNext == Settled' = SettledOf(buffer', stack')
  BY DEF Settled, SettledOf, Occurs

(* Without a slot of a failed read, the whole buffer counts *)
LEMMA Hearing ==
    ASSUME HInv, ~Marks(stack)
    PROVE  Unmarked(stack) /\ Settled = buffer
<1>1. Unmarked(stack)
  BY DEF HInv
<1> QED
  BY <1>1, SettledIs, SettledUnmarked

LEMMA SettledType ==
    ASSUME TypeOK, HInv
    PROVE  Settled \in Seq(Nat) /\ Bytes(rxQueue) \in Seq(Nat) /\ Inbox \in Seq(Nat)
<1>1. buffer \in Seq(Nat) /\ rxQueue \in Seq(Nat \ {0}) /\ stack \in Seq(Record)
  BY DEF TypeOK
<1>2. Settled \in Seq(Nat)
  <2>1. CASE Unmarked(stack)
    BY <1>1, <2>1, SettledIs, SettledUnmarked
  <2>2. CASE Marks(stack)
    <3>1. PICK n \in Int : Marked(stack, n)
      BY <2>2 DEF Marks
    <3>2. Settled = Chop(buffer, n)
      BY <3>1, SettledIs, SettledMarked
    <3> QED
      BY <1>1, <3>2, ChopType
  <2> QED
    BY <2>1, <2>2 DEF HInv
<1>3. Bytes(rxQueue) \in Seq(Nat)
  <2>1. Bytes(rxQueue) \in Seq(Nat \ {0})
    BY <1>1, BytesType
  <2> QED
    BY <2>1, SeqMonotonic
<1>4. Inbox \in Seq(Nat)
  BY <1>2, <1>3, ConcatProperties DEF Inbox
<1> QED
  BY <1>2, <1>3, <1>4

-----------------------------------------------------------------------------
(* The steps of the channels.  "Passes" are those without a fault.         *)
Passes ==
    \/ UNCHANGED Faulty!chVars
    \/ Faulty!Renew \/ Faulty!Open \/ Faulty!Shut
    \/ Faulty!Submit \/ Faulty!Transmit \/ Faulty!Arrive \/ Faulty!Deliver

(* What makes a write fail after some of its frames were sent *)
WritesMayFail == WriteErrors # {} \/ \E i \in 1 .. Len(writeBuffer) : ~writeBuffer[i].valid

ChannelStep ==
    /\ HInv'
    /\ \/ Passes
       \/ ReadErrors # {} /\ Faulty!Lose
       \/ WritesMayFail /\ Faulty!Retransmit

(* Steps that only change the rest of the state, and the stack *)
LEMMA Stutters ==
    ASSUME HInv, Carries(stack, stack'),
           UNCHANGED <<descriptor, openFds, buffer, rxQueue, writeBuffer, rxCount, got,
                       txCount, sent>>
    PROVE  ChannelStep
<1>1. (Unmarked(stack') \/ Marks(stack')) /\ SettledOf(buffer, stack') = SettledOf(buffer, stack)
  BY CarriesSettled DEF HInv
<1>2. Settled' = Settled
  BY <1>1, SettledIs, SettledIsNext
<1>3. HInv'
  BY <1>1 DEF HInv, IsOpen, Unmarked, Avoids, Marks, Marked, MarkedAt
<1>4. UNCHANGED Faulty!chVars
  BY <1>2 DEF Faulty!chVars, IsOpen, Ids, Bytes
<1> QED
  BY <1>3, <1>4 DEF ChannelStep, Passes

-----------------------------------------------------------------------------
(* Cutting where one sequence ends and the next begins *)
LEMMA CutWhole ==
    ASSUME NEW S, NEW s \in Seq(S)
    PROVE  First(s, Len(s)) = s /\ Drop(s, Len(s)) = <<>> /\ First(s, 0) = <<>> /\ Drop(s, 0) = s
<1>1. Len(s) \in Nat
  BY LenProperties
<1>2. Len(s) \in 0 .. Len(s) /\ 0 \in 0 .. Len(s)
  BY <1>1
<1>3. First(s, Len(s)) = s
  BY SubSeqFull DEF First
<1>4. Drop(s, Len(s)) \in Seq(S) /\ Len(Drop(s, Len(s))) = 0
  <2>1. Drop(s, Len(s)) \in Seq(S) /\ Len(Drop(s, Len(s))) = Len(s) - Len(s)
    BY <1>2, CutInTwo, Zenon
  <2> QED
    BY <1>1, <2>1
<1>5. First(s, 0) \in Seq(S) /\ Len(First(s, 0)) = 0
  BY <1>2, CutInTwo, Zenon
<1>6. Drop(s, 0) = s
  BY SubSeqFull DEF Drop
<1> QED
  BY <1>3, <1>4, <1>5, <1>6, EmptySeq

LEMMA CutJoin ==
    ASSUME NEW S, NEW s \in Seq(S), NEW t \in Seq(S)
    PROVE  First(s \o t, Len(s)) = s /\ Drop(s \o t, Len(s)) = t
<1>1. Len(s) \in 0 .. Len(s)
  BY LenProperties
<1>2. First(s \o t, Len(s)) = First(s, Len(s)) /\ Drop(s \o t, Len(s)) = Drop(s, Len(s)) \o t
  BY <1>1, CutFront, Zenon
<1>3. First(s, Len(s)) = s /\ Drop(s, Len(s)) = <<>>
  BY CutWhole, Zenon
<1>4. <<>> \o t = t
  BY ConcatEmptySeq
<1> QED
  BY <1>2, <1>3, <1>4, Zenon

LEMMA Associates ==
    ASSUME NEW S, NEW s \in Seq(S), NEW t \in Seq(S), NEW u \in Seq(S)
    PROVE  (s \o t) \o u = s \o (t \o u)
  BY ConcatAssociative, SMTT(60)

LEMMA BytesAssociate == \A s, t, u \in Seq(Nat) : (s \o t) \o u = s \o (t \o u)
  BY Associates, SMTT(60)

(* x is s and u with something between them *)
Spans(x, s, u) ==
    \E i \in 0 .. Len(x) : \E j \in i .. Len(x) : First(x, i) = s /\ Drop(x, j) = u

LEMMA CutMiddle ==
    ASSUME NEW S, NEW s \in Seq(S), NEW t \in Seq(S), NEW u \in Seq(S)
    PROVE  Spans(s \o (t \o u), s, u)
<1> DEFINE x == s \o (t \o u)
<1>1. t \o u \in Seq(S) /\ s \o t \in Seq(S)
  BY ConcatProperties
<1>2. x = (s \o t) \o u
  <2>1. (s \o t) \o u = s \o (t \o u)
    BY Associates, SMTT(60)
  <2> QED
    BY <2>1
<1>3. First(x, Len(s)) = s
  BY <1>1, CutJoin, Zenon
<1>4. Drop(x, Len(s \o t)) = u
  <2> DEFINE v == s \o t
  <2>1. v \in Seq(S)
    BY <1>1
  <2> HIDE DEF v
  <2>2. Drop(v \o u, Len(v)) = u
    BY <2>1, CutJoin, Zenon
  <2> QED
    BY <1>2, <2>2 DEF v
<1>5. Len(s \o t) = Len(s) + Len(t) /\ Len(s) \in Nat /\ Len(t) \in Nat
  BY Joined
<1>6. Len((s \o t) \o u) = Len(s \o t) + Len(u) /\ Len(u) \in Nat
  BY <1>1, Joined
<1>7. Len(s) \in 0 .. Len(x) /\ Len(s \o t) \in Len(s) .. Len(x)
  BY <1>2, <1>5, <1>6
<1> QED
  BY <1>3, <1>4, <1>7 DEF Spans

-----------------------------------------------------------------------------
(* Reading *)

LEMMA SameInbox ==
    ASSUME HInv', Inbox' = Inbox,
           UNCHANGED <<descriptor, openFds, writeBuffer, rxCount, got, txCount, sent>>
    PROVE  ChannelStep
<1>1. UNCHANGED Faulty!chVars
  BY DEF Faulty!chVars, IsOpen, Ids, Inbox
<1> QED
  BY <1>1 DEF ChannelStep, Passes

(* Reserved bytes and the frames among them: all that a failed read adds   *)
LEMMA Reserved ==
    ASSUME TypeOK, NEW o \in ReadOutcomes(rxQueue, IsOpen(descriptor), BytesToRead, ReadErrors),
           o.error # "none"
    PROVE  LET filled  == Bytes(First(rxQueue, o.frames))
               garbage == [i \in 1 .. BytesToRead - Len(filled) |-> Garbage]
           IN  /\ filled \in Seq(Nat) /\ garbage \in Seq(Nat)
               /\ filled \o garbage \in Seq(Nat)
               /\ Len(filled \o garbage) = BytesToRead
<1> DEFINE filled  == Bytes(First(rxQueue, o.frames))
           n       == BytesToRead
           garbage == [i \in 1 .. n - Len(filled) |-> Garbage]
<1>1. rxQueue \in Seq(Nat) /\ Len(rxQueue) \in Nat /\ IsOpen(descriptor) \in BOOLEAN
  <2>1. rxQueue \in Seq(Nat \ {0})
    BY DEF TypeOK
  <2> QED
    BY <2>1, SeqMonotonic DEF IsOpen
<1>2. n \in Int
  BY BytesToReadType
<1>3. o.frames \in 0 .. Len(rxQueue) /\ o.frames <= FramesIn(n) /\ FramesIn(n) > 0
  BY <1>1, <1>2, OutcomesFit
<1>4. First(rxQueue, o.frames) \in Seq(Nat) /\ Len(First(rxQueue, o.frames)) = o.frames
  BY <1>1, <1>3, CutInTwo
<1>5. filled \in Seq(Nat) /\ Len(filled) = FrameSize * o.frames /\ Len(filled) \in Nat
  <2>1. filled \in Seq(Nat)
    BY <1>4, BytesType
  <2>2. Len(filled) = FrameSize * o.frames
    BY <1>1, <1>3, <1>4, BytesLength
  <2> QED
    BY <2>1, <2>2, LenProperties
<1>6. Len(filled) <= n
  <2>1. o.frames \in Nat
    BY <1>1, <1>3
  <2>2. o.frames = 0 \/ FrameSize * o.frames <= n
    BY <1>2, <1>3, <2>1, FramesInFit
  <2>3. n >= 0
    BY <1>2, <1>3, FrameSizeAssumption DEF FramesIn
  <2> QED
    BY <1>2, <1>5, <2>1, <2>2, <2>3, FrameSizeAssumption
<1> HIDE DEF filled, n
<1>7. n - Len(filled) \in Int /\ n - Len(filled) >= 0
  BY <1>2, <1>5, <1>6
<1>8. garbage \in Seq(Nat)
  BY <1>7, GarbageType
<1>9. Len(garbage) = n - Len(filled)
  BY <1>7, GarbageLength
<1> HIDE DEF garbage
<1>10. filled \o garbage \in Seq(Nat) /\ Len(filled \o garbage) = Len(filled) + Len(garbage)
  BY <1>5, <1>8, Joined
<1>11. Len(filled \o garbage) = n
  BY <1>2, <1>5, <1>9, <1>10
<1> QED
  BY <1>5, <1>8, <1>10, <1>11 DEF filled, garbage, n

LEMMA ReadSucceedsChannel ==
    ASSUME ErrorSlotsDoNotRead, TypeOK, HInv, IsOpen(descriptor), Unmarked(stack),
           NEW rest \in Seq(Record), Unmarked(rest),
           NEW o, o.frames \in 0 .. Len(rxQueue), rxQueue' = Drop(rxQueue, o.frames),
           ReadSucceeds(o, rest), UNCHANGED <<connection, writing, history>>
    PROVE  ChannelStep
<1> DEFINE a == First(rxQueue, o.frames)
           b == Drop(rxQueue, o.frames)
<1>1. buffer \in Seq(Nat) /\ rxQueue \in Seq(Nat)
  <2>1. rxQueue \in Seq(Nat \ {0}) /\ buffer \in Seq(Nat)
    BY DEF TypeOK
  <2> QED
    BY <2>1, SeqMonotonic
<1>2. a \in Seq(Nat) /\ b \in Seq(Nat) /\ a \o b = rxQueue
  BY <1>1, CutInTwo, Zenon
<1>3. buffer' = buffer \o Bytes(a) /\ rxQueue' = b
  BY DEF ReadSucceeds
<1> HIDE DEF a, b
<1>4. Unmarked(stack')
  <2>1. Unmarked(Resume(TRUE, rest))
    BY AvoidsResume DEF Unmarked
  <2>2. Base("readyRead") \in Record /\ Base("readyRead").at # "readError"
    BY BaseType DEF Base, SlotLabels
  <2>3. Unmarked(Cons(Base("readyRead"), rest))
    BY <2>2, UnmarkedCons
  <2> QED
    BY <2>1, <2>3 DEF ReadSucceeds
<1>5. HInv'
  <2>1. IsOpen(descriptor)'
    BY DEF IsOpen, connection
  <2> QED
    BY <1>4, <2>1 DEF HInv, Unmarked, Avoids
<1>6. Settled = buffer /\ Settled' = buffer'
  BY <1>4, SettledIs, SettledIsNext, SettledUnmarked
<1>7. Inbox' = Inbox
  <2>1. Bytes(a) \in Seq(Nat) /\ Bytes(b) \in Seq(Nat)
    BY <1>2, BytesType
  <2>2. Bytes(rxQueue) = Bytes(a) \o Bytes(b)
    BY <1>2, BytesConcat
  <2>3. (buffer \o Bytes(a)) \o Bytes(b) = buffer \o (Bytes(a) \o Bytes(b))
    BY <1>1, <2>1, BytesAssociate, Zenon
  <2>4. Inbox' = Settled' \o Bytes(rxQueue')
    BY DEF Inbox, Bytes
  <2>5. Inbox = buffer \o Bytes(rxQueue)
    BY <1>6 DEF Inbox
  <2> QED
    BY <1>3, <1>6, <2>2, <2>3, <2>4, <2>5, Zenon
<1>8. UNCHANGED <<descriptor, openFds, writeBuffer, rxCount, got, txCount, sent>>
  BY DEF connection, writing, history
<1> QED
  BY <1>5, <1>7, <1>8, SameInbox

(* A failed read takes its frames from the queue and brings none           *)
LEMMA ReadFailsChannel ==
    ASSUME ErrorSlotsDoNotRead, TypeOK, HInv, IsOpen(descriptor), Unmarked(stack),
           NEW rest \in Seq(Record), Unmarked(rest),
           NEW o \in ReadOutcomes(rxQueue, IsOpen(descriptor), BytesToRead, ReadErrors),
           o.error # "none", rxQueue' = Drop(rxQueue, o.frames),
           ReadFails(o, rest), UNCHANGED <<connection, writing, history>>
    PROVE  ChannelStep
<1> DEFINE a       == First(rxQueue, o.frames)
           b       == Drop(rxQueue, o.frames)
           garbage == [i \in 1 .. BytesToRead - Len(Bytes(a)) |-> Garbage]
           added   == Bytes(a) \o garbage
           slot    == [Base("readError") EXCEPT !.chop = BytesToRead]
<1>1. buffer \in Seq(Nat) /\ rxQueue \in Seq(Nat) /\ o.frames \in 0 .. Len(rxQueue)
  <2>1. rxQueue \in Seq(Nat \ {0}) /\ buffer \in Seq(Nat)
    BY DEF TypeOK
  <2> QED
    BY <2>1, SeqMonotonic, ReadOutcomesType
<1>2. a \in Seq(Nat) /\ b \in Seq(Nat) /\ a \o b = rxQueue
  BY <1>1, CutInTwo, Zenon
<1>3. /\ Bytes(a) \in Seq(Nat) /\ garbage \in Seq(Nat) /\ added \in Seq(Nat)
      /\ Len(added) = BytesToRead
  BY Reserved
<1>4. buffer' = (buffer \o Bytes(a)) \o garbage /\ rxQueue' = b /\ stack' = Cons(slot, rest)
  BY DEF ReadFails
<1>5. ReadErrors # {}
  BY DEF ReadOutcomes
<1>6. slot \in Record /\ slot.at = "readError" /\ slot.chop = BytesToRead /\ BytesToRead \in Int
  BY BytesToReadType, BaseType DEF Base, SlotLabels
<1> HIDE DEF a, b, garbage, added, slot
<1>7. Marked(Cons(slot, rest), BytesToRead)
  <2>1. "readError" \in Deaf
    BY <1>5, DeafKeepsOff DEF KeepsOff
  <2> QED
    BY <1>6, <2>1, MarkedStart
<1>8. HInv'
  <2>1. IsOpen(descriptor)'
    BY DEF IsOpen, connection
  <2>2. Marks(Cons(slot, rest))
    BY <1>6, <1>7 DEF Marks
  <2> QED
    BY <1>4, <2>1, <2>2 DEF HInv, Marks, Marked, MarkedAt
<1>9. Settled = buffer /\ Settled' = buffer
  <2>1. Settled = buffer
    BY SettledIs, SettledUnmarked
  <2>2. Settled' = Chop(buffer', BytesToRead)
    BY <1>4, <1>6, <1>7, SettledIsNext, SettledMarked
  <2>3. (buffer \o Bytes(a)) \o garbage = buffer \o added
    BY <1>1, <1>3, BytesAssociate, Zenon DEF added
  <2>4. Chop(buffer \o added, Len(added)) = buffer
    BY <1>1, <1>3, ChopAdded, Zenon
  <2> QED
    BY <1>3, <1>4, <2>1, <2>2, <2>3, <2>4
<1>10. Inbox = buffer \o (Bytes(a) \o Bytes(b)) /\ Inbox' = buffer \o Bytes(b)
  <2>1. Bytes(rxQueue) = Bytes(a) \o Bytes(b)
    BY <1>2, BytesConcat
  <2>2. Inbox' = Settled' \o Bytes(rxQueue')
    BY DEF Inbox, Bytes
  <2>3. Inbox = buffer \o Bytes(rxQueue)
    BY <1>9 DEF Inbox
  <2> QED
    BY <1>4, <1>9, <2>1, <2>2, <2>3, Zenon
<1>11. Spans(Inbox, buffer, Bytes(b))
  <2>1. Bytes(b) \in Seq(Nat)
    BY <1>2, BytesType
  <2>2. Spans(buffer \o (Bytes(a) \o Bytes(b)), buffer, Bytes(b))
    BY <1>1, <1>3, <2>1, CutMiddle
  <2> QED
    BY <1>10, <2>2, Zenon
<1>12. Faulty!Lose
  <2>1. Inbox' = (Settled \o Bytes(rxQueue))'
    BY DEF Inbox
  <2>2. \E i \in 0 .. Len(Settled \o Bytes(rxQueue)) :
          \E j \in i .. Len(Settled \o Bytes(rxQueue)) :
            (Settled \o Bytes(rxQueue))' = SubSeq(Settled \o Bytes(rxQueue), 1, i)
                     \o SubSeq(Settled \o Bytes(rxQueue), j + 1, Len(Settled \o Bytes(rxQueue)))
    BY <1>10, <1>11, <2>1, Zenon DEF Inbox, Spans, First, Drop
  <2>3. UNCHANGED <<IsOpen(descriptor), txCount, Ids(writeBuffer), Ids(sent), rxCount, got>>
    BY DEF IsOpen, Ids, connection, writing, history
  <2> QED
    BY <2>2, <2>3 DEF Faulty!Lose, Faulty!Take, Faulty!Skip
<1> QED
  BY <1>5, <1>8, <1>12 DEF ChannelStep

LEMMA CarriesUnmarked ==
    ASSUME NEW s, NEW t, Unmarked(s), Unmarked(t)
    PROVE  Carries(s, t)
  BY DEF Carries, Unmarked, Avoids, Marked, MarkedAt

LEMMA ReadNotificationChannel ==
    ASSUME ErrorSlotsDoNotRead, TypeOK, HInv, IsOpen(descriptor), Unmarked(stack),
           NEW rest \in Seq(Record), Unmarked(rest), ReadNotification(rest)
    PROVE  ChannelStep
<1>1. UNCHANGED <<connection, writing, history>>
  BY DEF ReadNotification
<1>2. CASE Full
  <2>1. Unmarked(Resume(FALSE, rest))
    BY AvoidsResume DEF Unmarked
  <2>2. Carries(stack, stack')
    BY <1>2, <2>1, CarriesUnmarked DEF ReadNotification
  <2>3. UNCHANGED <<descriptor, openFds, buffer, rxQueue, writeBuffer, rxCount, got, txCount, sent>>
    BY <1>1, <1>2 DEF ReadNotification, connection, writing, history
  <2> QED
    BY <2>2, <2>3, Stutters
<1>3. CASE ~Full
  <2>1. PICK o \in ReadOutcomes(rxQueue, IsOpen(descriptor), BytesToRead, ReadErrors) :
            /\ rxQueue' = Drop(rxQueue, o.frames)
            /\ IF o.error = "none" THEN ReadSucceeds(o, rest) ELSE ReadFails(o, rest)
    BY <1>3 DEF ReadNotification
  <2>2. o.frames \in 0 .. Len(rxQueue)
    BY ReadOutcomesType
  <2>3. CASE o.error = "none"
    BY <1>1, <2>1, <2>2, <2>3, ReadSucceedsChannel
  <2>4. CASE o.error # "none"
    BY <1>1, <2>1, <2>4, ReadFailsChannel
  <2> QED
    BY <2>3, <2>4
<1> QED
  BY <1>2, <1>3

-----------------------------------------------------------------------------
(* Writing *)

LEMMA SameReading ==
    ASSUME HInv, Carries(stack, stack'), UNCHANGED <<descriptor, openFds, buffer, rxQueue>>
    PROVE  HInv' /\ Inbox' = Inbox
<1>1. (Unmarked(stack') \/ Marks(stack')) /\ SettledOf(buffer, stack') = SettledOf(buffer, stack)
  BY CarriesSettled DEF HInv
<1>2. Settled' = Settled
  BY <1>1, SettledIs, SettledIsNext
<1>3. HInv'
  BY <1>1 DEF HInv, IsOpen, Unmarked, Avoids, Marks, Marked, MarkedAt
<1> QED
  BY <1>2, <1>3 DEF Inbox, Bytes

(* Frames given to the interface leave the write buffer in order; those of *)
(* a call that fails stay there, and are given to it again.                *)
LEMMA SendChannel ==
    ASSUME TypeOK, NEW k \in 1 .. Len(writeBuffer), IsOpen(descriptor), HInv', Inbox' = Inbox,
           sent' = sent \o First(writeBuffer, k),
           \/ writeBuffer' = Drop(writeBuffer, k)
           \/ writeBuffer' = writeBuffer /\ WritesMayFail,
           UNCHANGED <<descriptor, openFds, rxCount, got, txCount>>
    PROVE  ChannelStep
<1> DEFINE out  == Ids(writeBuffer)
           wire == Ids(sent)
<1>1. writeBuffer \in Seq(Frame) /\ sent \in Seq(Frame) /\ Len(writeBuffer) \in Nat
  BY LenProperties DEF TypeOK
<1>2. k \in 0 .. Len(writeBuffer)
  BY <1>1
<1>3. Len(out) = Len(writeBuffer)
  BY <1>1, IdsAt
<1>4. Ids(First(writeBuffer, k)) = First(out, k) /\ Ids(Drop(writeBuffer, k)) = Drop(out, k)
  BY <1>1, <1>2, IdsCut
<1>5. wire' = wire \o First(out, k)
  <2>1. First(writeBuffer, k) \in Seq(Frame)
    BY <1>1, <1>2, CutInTwo, Zenon
  <2>2. Ids(sent \o First(writeBuffer, k)) = Ids(sent) \o Ids(First(writeBuffer, k))
    BY <1>1, <2>1, IdsConcat
  <2>3. wire' = Ids(sent')
    BY DEF Ids
  <2> QED
    BY <1>4, <2>2, <2>3
<1>6. k \in 1 .. Len(out)
  BY <1>3
<1>7. UNCHANGED <<IsOpen(descriptor), txCount, rxCount, Settled \o Bytes(rxQueue), got>>
  BY DEF IsOpen, Inbox
<1>8. CASE writeBuffer' = Drop(writeBuffer, k)
  <2>1. out' = Drop(out, k)
    BY <1>4, <1>8 DEF Ids
  <2>2. \E n \in 1 .. Len(out) : wire' = wire \o SubSeq(out, 1, n)
                                 /\ out' = SubSeq(out, n + 1, Len(out))
    BY <1>5, <1>6, <2>1 DEF First, Drop
  <2>3. Faulty!Transmit
    BY <1>7, <2>2 DEF Faulty!Transmit, Faulty!Take, Faulty!Skip
  <2> QED
    BY <2>3 DEF ChannelStep, Passes
<1>9. CASE writeBuffer' = writeBuffer /\ WritesMayFail
  <2>1. out' = out
    BY <1>9 DEF Ids
  <2>2. \E n \in 1 .. Len(out) : wire' = wire \o SubSeq(out, 1, n)
    BY <1>5, <1>6 DEF First
  <2>3. Faulty!Retransmit
    BY <1>7, <2>1, <2>2 DEF Faulty!Retransmit, Faulty!Take
  <2> QED
    BY <1>9, <2>3 DEF ChannelStep
<1> QED
  BY <1>8, <1>9

LEMMA FinishWriteChannel ==
    ASSUME ErrorSlotsDoNotRead, TypeOK, HInv, NEW pending, NEW rest \in Seq(Record),
           Carries(stack, rest), Marks(stack) => "writeError" \in Deaf, FinishWrite(pending, rest)
    PROVE  ChannelStep
<1>1. UNCHANGED <<descriptor, openFds, buffer, rxQueue, rxCount, got, txCount>>
  BY DEF FinishWrite, connection, reading
<1>2. Carries(stack, Resume(TRUE, rest))
  BY CarriesResume
<1>3. Carries(stack, Cons(Base("writeError"), rest))
  <2>1. Base("writeError") \in Record /\ Base("writeError").at = "writeError"
    BY BaseType DEF Base, SlotLabels
  <2> QED
    BY <2>1, CarriesSlot
<1>4. Carries(stack, stack')
  BY <1>2, <1>3 DEF FinishWrite
<1>5. CASE writeBuffer = <<>>
  BY <1>1, <1>4, <1>5, Stutters DEF FinishWrite
<1>6. CASE writeBuffer # <<>>
  <2>1. PICK o \in WriteOutcomes(writeBuffer, IsOpen(descriptor), WriteErrors) :
            /\ sent' = sent \o First(writeBuffer, o.frames)
            /\ writeBuffer' = IF o.ok THEN Drop(writeBuffer, o.frames) ELSE writeBuffer
    BY <1>6 DEF FinishWrite
  <2>2. o.frames \in 0 .. Len(writeBuffer) /\ o.ok \in BOOLEAN
    BY WriteOutcomesType
  <2>3. writeBuffer \in Seq(Frame) /\ sent \in Seq(Frame) /\ Len(writeBuffer) \in Nat
    BY LenProperties DEF TypeOK
  <2>4. CASE o.frames = 0
    <3>1. First(writeBuffer, 0) = <<>> /\ Drop(writeBuffer, 0) = writeBuffer
      BY <2>3, CutWhole, Zenon
    <3>2. sent \o <<>> = sent
      BY <2>3, ConcatEmptySeq
    <3>3. sent' = sent /\ writeBuffer' = writeBuffer
      BY <2>1, <2>4, <3>1, <3>2
    <3> QED
      BY <1>1, <1>4, <3>3, Stutters
  <2>5. CASE o.frames # 0
    <3>1. o.frames \in 1 .. Len(writeBuffer)
      BY <2>2, <2>3, <2>5
    <3>2. IsOpen(descriptor)
      <4>1. 1 \in 1 .. o.frames
        BY <2>3, <3>1
      <4> QED
        BY <4>1 DEF WriteOutcomes
    <3>3. ~o.ok => WritesMayFail
      <4> SUFFICES ASSUME ~o.ok PROVE WritesMayFail
        OBVIOUS
      <4>1. /\ o.frames # Len(writeBuffer)
            /\ writeBuffer[o.frames + 1].valid => WriteErrors # {}
        BY <3>2 DEF WriteOutcomes
      <4>2. o.frames + 1 \in 1 .. Len(writeBuffer)
        BY <2>3, <3>1, <4>1
      <4> QED
        BY <4>1, <4>2 DEF WritesMayFail
    <3>4. HInv' /\ Inbox' = Inbox
      BY <1>1, <1>4, SameReading
    <3> QED
      BY <1>1, <2>1, <2>2, <3>1, <3>2, <3>3, <3>4, SendChannel
  <2> QED
    BY <2>4, <2>5
<1> QED
  BY <1>5, <1>6

LEMMA CompleteAsyncWriteChannel ==
    ASSUME ErrorSlotsDoNotRead, TypeOK, HInv, NEW rest \in Seq(Record), Carries(stack, rest),
           Marks(stack) => {"bytesWritten", "writeError"} \subseteq Deaf,
           CompleteAsyncWrite(rest)
    PROVE  ChannelStep
<1>1. CASE pendingBytesWritten > 0 /\ ~emittedBytesWritten
  <2>1. Base("bytesWritten") \in Record /\ Base("bytesWritten").at = "bytesWritten"
    BY BaseType DEF Base, SlotLabels
  <2>2. Carries(stack, Cons(Base("bytesWritten"), rest))
    BY <2>1, CarriesSlot
  <2> QED
    BY <1>1, <2>2, Stutters DEF CompleteAsyncWrite, connection, reading
<1>2. CASE ~(pendingBytesWritten > 0 /\ ~emittedBytesWritten)
  BY <1>2, FinishWriteChannel DEF CompleteAsyncWrite
<1> QED
  BY <1>1, <1>2

-----------------------------------------------------------------------------
(* Who may run inside a slot of a failed read *)

LEMMA DeafCall ==
    ASSUME ErrorSlotsDoNotRead, TypeOK, Marks(stack), NEW call, MayCall(call)
    PROVE  call \notin Receives /\ SlotsOf(call) \subseteq Deaf
<1>1. stack # <<>> /\ Head(stack).at \in Deaf
  BY MarksHead DEF TypeOK
<1>2. <<Context, call>> \in AppCalls /\ Context \in Deaf
  BY <1>1 DEF MayCall, Context
<1>3. \A c \in AppCalls : c[1] \in Deaf => c[2] \notin Receives /\ SlotsOf(c[2]) \subseteq Deaf
  BY DeafKeepsOff DEF KeepsOff
<1> QED
  BY <1>2, <1>3

LEMMA DeafSlot ==
    ASSUME ErrorSlotsDoNotRead, TypeOK, Marks(stack)
    PROVE  Context \in Deaf /\ Context \in SlotLabels /\ SlotsAfter(Context) \subseteq Deaf
<1>1. stack # <<>> /\ Head(stack).at \in Deaf
  BY MarksHead DEF TypeOK
<1>2. Deaf \subseteq SlotLabels /\ \A at \in Deaf : SlotsAfter(at) \subseteq Deaf
  BY DeafKeepsOff DEF KeepsOff
<1> QED
  BY <1>1, <1>2 DEF Context

(* The event loop and the wait functions run in no slot of a failed read   *)
LEMMA LoopHears ==
    ASSUME ErrorSlotsDoNotRead, TypeOK, HInv, Dispatching
    PROVE  ~Marks(stack) /\ Unmarked(stack)
<1>1. ASSUME Marks(stack) PROVE FALSE
  <2>1. MayCall("events")
    BY <1>1, MarksHead DEF Dispatching, TypeOK
  <2> QED
    BY <1>1, <2>1, DeafCall DEF Receives
<1> QED
  BY <1>1 DEF HInv

LEMMA WaitHears ==
    ASSUME ErrorSlotsDoNotRead, TypeOK, HInv, Context \in WaitLabels
    PROVE  stack # <<>> /\ Head(stack).at = Context /\ ~Marks(stack) /\ Unmarked(stack)
<1>1. stack # <<>> /\ Head(stack).at = Context
  BY DEF Context, WaitLabels
<1>2. Context \notin SlotLabels
  BY DEF WaitLabels, SlotLabels
<1>3. ~Marks(stack)
  BY <1>2, DeafSlot
<1> QED
  BY <1>1, <1>3 DEF HInv

LEMMA TopIs ==
    ASSUME TypeOK, NEW at, Top(at)
    PROVE  /\ stack # <<>> /\ Context = at /\ Head(stack).at = at /\ Below = Tail(stack)
           /\ Below \in Seq(Record) /\ Head(stack) \in Record
<1>1. stack # <<>> /\ Head(stack).at = at
  BY DEF Top
<1> QED
  BY <1>1, StackType DEF Context, Below

(* A slot is run in place of the one on top, or on top of it *)
LEMMA CarriesPush ==
    ASSUME TypeOK, NEW at \in SlotLabels \cup WaitLabels, at # "readError",
           Marks(stack) => at \in Deaf
    PROVE  Carries(stack, Cons(Base(at), stack))
<1>1. Base(at) \in Record /\ Base(at).at = at
  BY BaseType DEF Base
<1> QED
  BY <1>1, CarriesSelf, CarriesSlot DEF TypeOK

LEMMA CarriesNext ==
    ASSUME TypeOK, stack # <<>>, Head(stack).at # "readError",
           NEW at \in SlotLabels \cup WaitLabels, at # "readError", Marks(stack) => at \in Deaf
    PROVE  /\ Carries(stack, Below) /\ Below \in Seq(Record)
           /\ Carries(stack, Cons(Base(at), Below))
           /\ Carries(stack, Goto(at)) /\ Goto(at) \in Seq(Record)
<1>1. Carries(stack, Below) /\ Below \in Seq(Record) /\ Head(stack) \in Record
  BY CarriesBelow DEF TypeOK, Below
<1>2. Base(at) \in Record /\ Base(at).at = at
  BY BaseType DEF Base
<1>3. [Head(stack) EXCEPT !.at = at] \in Record /\ [Head(stack) EXCEPT !.at = at].at = at
  BY <1>1 DEF Record
<1> QED
  BY <1>1, <1>2, <1>3, CarriesSlot, ConsRecord DEF Goto

-----------------------------------------------------------------------------
(* The life of a connection *)

LEMMA BytesOfNone == Bytes(<<>>) = <<>>
<1>1. <<>> \in Seq(Nat) /\ Len(<<>>) = 0
  OBVIOUS
<1>2. Bytes(<<>>) \in Seq(Nat) /\ Len(Bytes(<<>>)) = FrameSize * 0
  BY <1>1, BytesAt
<1> QED
  BY <1>2, EmptySeq, FrameSizeAssumption

LEMMA IdsOfNone == Ids(<<>>) = <<>>
<1>1. <<>> \in Seq(Frame) /\ Len(<<>>) = 0
  OBVIOUS
<1>2. Ids(<<>>) \in Seq(Nat) /\ Len(Ids(<<>>)) = 0
  BY <1>1, IdsAt
<1> QED
  BY <1>2, EmptySeq

(* Without a queue, only what the buffer holds is left to deliver          *)
LEMMA NoQueue ==
    ASSUME TypeOK, HInv, Carries(stack, stack'), rxQueue' = <<>>, buffer' = buffer
    PROVE  HInv' /\ Settled' = Settled /\ Inbox' = Settled
<1>1. (Unmarked(stack') \/ Marks(stack')) /\ SettledOf(buffer, stack') = SettledOf(buffer, stack)
  BY CarriesSettled DEF HInv
<1>2. Settled' = Settled
  BY <1>1, SettledIs, SettledIsNext
<1>3. HInv'
  BY <1>1 DEF HInv, Unmarked, Avoids, Marks, Marked, MarkedAt
<1>4. Inbox' = Settled' \o Bytes(rxQueue')
  BY DEF Inbox, Bytes
<1>5. Settled \in Seq(Nat)
  BY SettledType
<1>6. Settled \o <<>> = Settled
  BY <1>5, ConcatEmptySeq
<1> QED
  BY <1>2, <1>3, <1>4, <1>6, BytesOfNone

LEMMA ShutChannel ==
    ASSUME TypeOK, HInv, Carries(stack, stack'), rxQueue' = <<>>, ~IsOpen(descriptor)',
           UNCHANGED <<buffer, writeBuffer, rxCount, got, txCount, sent>>
    PROVE  ChannelStep
<1>1. HInv' /\ Settled' = Settled /\ Inbox' = Settled
  BY NoQueue
<1>2. UNCHANGED <<Ids(writeBuffer), Ids(sent), txCount, rxCount, got>>
  BY DEF Ids
<1>3. Settled \in Seq(Nat) /\ Bytes(rxQueue) \in Seq(Nat)
  BY SettledType
<1>4. CASE IsOpen(descriptor)
  <2>1. First(Settled \o Bytes(rxQueue), Len(Settled)) = Settled
    BY <1>3, CutJoin, Zenon
  <2>2. Len(Settled) \in 0 .. Len(Settled \o Bytes(rxQueue))
    <3>1. /\ Len(Settled \o Bytes(rxQueue)) = Len(Settled) + Len(Bytes(rxQueue))
          /\ Len(Settled) \in Nat /\ Len(Bytes(rxQueue)) \in Nat
      BY <1>3, Joined
    <3> QED
      BY <3>1
  <2>3. (Settled \o Bytes(rxQueue))' = SubSeq(Settled \o Bytes(rxQueue), 1, Len(Settled))
    BY <1>1, <2>1 DEF Inbox, First
  <2>4. Faulty!Shut
    BY <1>2, <1>4, <2>2, <2>3 DEF Faulty!Shut, Faulty!Take
  <2> QED
    BY <1>1, <2>4 DEF ChannelStep, Passes
<1>5. CASE ~IsOpen(descriptor)
  <2>1. rxQueue = <<>>
    BY <1>5 DEF HInv
  <2>2. Inbox' = Inbox
    <3>1. Settled \o <<>> = Settled
      BY <1>3, ConcatEmptySeq
    <3> QED
      BY <1>1, <2>1, <3>1, BytesOfNone DEF Inbox
  <2>3. UNCHANGED Faulty!chVars
    BY <1>2, <1>5, <2>2 DEF Faulty!chVars, Inbox, IsOpen
  <2> QED
    BY <1>1, <2>3 DEF ChannelStep, Passes
<1> QED
  BY <1>4, <1>5

LEMMA SettledNone ==
    ASSUME NEW s, Unmarked(s) \/ Marks(s)
    PROVE  SettledOf(<<>>, s) = <<>>
<1>1. CASE Unmarked(s)
  BY <1>1, SettledUnmarked
<1>2. CASE Marks(s)
  <2>1. PICK n \in Int : Marked(s, n)
    BY <1>2 DEF Marks
  <2>2. SettledOf(<<>>, s) = Chop(<<>>, n)
    BY <2>1, SettledMarked
  <2>3. Chop(<<>>, n) = <<>>
    BY <2>1 DEF Chop
  <2> QED
    BY <2>2, <2>3
<1> QED
  BY <1>1, <1>2

LEMMA OpenChannel ==
    ASSUME TypeOK, HInv, Carries(stack, stack'), rxQueue' = <<>>,
           ~IsOpen(descriptor), IsOpen(descriptor)',
           buffer = <<>>, writeBuffer = <<>>, rxCount = 0, got = <<>>, txCount = 0, sent = <<>>,
           UNCHANGED <<buffer, writeBuffer, rxCount, got, txCount, sent>>
    PROVE  ChannelStep
<1>1. HInv' /\ Settled' = Settled /\ Inbox' = Settled
  BY NoQueue
<1>2. UNCHANGED <<Ids(writeBuffer), Ids(sent), txCount, rxCount, got>>
  BY DEF Ids
<1>3. Settled = <<>> /\ rxQueue = <<>>
  BY SettledIs, SettledNone DEF HInv
<1>4. Inbox = <<>>
  <2>1. <<>> \o <<>> = <<>>
    OBVIOUS
  <2> QED
    BY <1>3, <2>1, BytesOfNone DEF Inbox
<1>5. Ids(writeBuffer) = <<>> /\ Ids(sent) = <<>>
  BY IdsOfNone
<1>6. Inbox' = Inbox
  BY <1>1, <1>3, <1>4
<1>7. Faulty!Fresh
  BY <1>4, <1>5 DEF Faulty!Fresh, Inbox
<1>8. Faulty!Open
  BY <1>2, <1>6, <1>7 DEF Faulty!Open, Inbox
<1> QED
  BY <1>1, <1>8 DEF ChannelStep, Passes

LEMMA RenewChannel ==
    ASSUME TypeOK, HInv, Carries(stack, stack'), ~IsOpen(descriptor),
           UNCHANGED <<descriptor, openFds, rxQueue>>, buffer' = <<>>, writeBuffer' = <<>>,
           rxCount' = 0, got' = <<>>, txCount' = 0, sent' = <<>>
    PROVE  ChannelStep
<1>1. (Unmarked(stack') \/ Marks(stack')) /\ rxQueue' = <<>> /\ ~IsOpen(descriptor)'
  BY CarriesSettled DEF HInv, IsOpen
<1>2. HInv'
  BY <1>1 DEF HInv, Unmarked, Avoids, Marks, Marked, MarkedAt
<1>3. Settled' = <<>>
  BY <1>1, SettledIsNext, SettledNone
<1>4. (Settled \o Bytes(rxQueue))' = <<>>
  <2>1. (Settled \o Bytes(rxQueue))' = Settled' \o Bytes(rxQueue')
    BY DEF Bytes
  <2>2. <<>> \o <<>> = <<>>
    OBVIOUS
  <2> QED
    BY <1>1, <1>3, <2>1, <2>2, BytesOfNone
<1>5. Ids(writeBuffer)' = <<>> /\ Ids(sent)' = <<>>
  BY IdsOfNone DEF Ids
<1>6. Faulty!Renew
  BY <1>1, <1>4, <1>5 DEF Faulty!Renew, Faulty!Fresh
<1> QED
  BY <1>2, <1>6 DEF ChannelStep, Passes

LEMMA CloseFromChannel ==
    ASSUME HInv, NEW rest \in Seq(Record), Carries(stack, rest), state # "Closing",
           Marks(stack) => "closing" \in Deaf, CloseFrom(rest)
    PROVE  ChannelStep
<1>1. Base("closing") \in Record /\ Base("closing").at = "closing"
  BY BaseType DEF Base, SlotLabels
<1>2. Carries(stack, Cons(Base("closing"), rest))
  BY <1>1, CarriesSlot
<1>3. Carries(stack, stack')
  BY <1>2 DEF CloseFrom
<1>4. UNCHANGED <<descriptor, openFds, buffer, rxQueue, writeBuffer, rxCount, got, txCount, sent>>
  BY DEF CloseFrom, connection, reading, writing, history
<1> QED
  BY <1>3, <1>4, Stutters

LEMMA NoSuchDescriptor ==
    ASSUME TypeOK
    PROVE  ~IsOpen(-1)
  BY ConstantsAssumption DEF TypeOK, IsOpen

LEMMA FinishDisconnectCarries ==
    ASSUME TypeOK, stack # <<>>, Head(stack).at # "readError",
           Marks(stack) => "unconnected" \in Deaf, FinishDisconnect(Below)
    PROVE  Carries(stack, stack')
<1>1. Carries(stack, Below) /\ Carries(stack, Cons(Base("unconnected"), Below))
  BY CarriesNext DEF SlotLabels
<1> QED
  BY <1>1 DEF FinishDisconnect

(* Until it is connected, nothing passes through the new connection.       *)
Begins == state = "Connecting" => buffer = <<>> /\ rxCount = 0 /\ got = <<>> /\ sent = <<>>

LEMMA OnlyEnds ==
    ASSUME SlotsKeepOut, TypeOK, CInv, state = "Connecting", Next
    PROVE  Connecting \/ Closing
<1>1. ~Idle /\ Context \in {"connecting", "connectError"}
  BY DEF Idle, CInv, Places
<1>2. stack # <<>> /\ Head(stack).at \in {"connecting", "connectError"}
  BY <1>1 DEF Context
<1>3. \A call : MayCall(call) => call = "close"
  BY <1>1, Callers
<1>4. ~Dispatching
  BY <1>1, EventLoop
<1>5. ~Reading
  BY <1>2, <1>3, <1>4 DEF Reading, FrameArrives, ReadNotifierEvent, AfterReadyRead, AfterReadError,
                     ReadFrame, ReadAll, Read, SetReadBufferSize, Top
<1>6. ~Writing
  BY <1>2, <1>3, <1>4 DEF Writing, WriteNotifierEvent, AfterBytesWritten, AfterWriteError,
                     WriteFrame, WriteInvalid, Write, Flush, Top
<1>7. ~Waiting
  BY <1>1, <1>2, <1>3 DEF Waiting, WaitForReadyRead, WaitForBytesWritten, SelectReady, SelectFails,
                     WaitLoop, WaitAfterRead, Top
<1>8. ~ClearError /\ ~SlotReturns
  BY <1>1, <1>3 DEF ClearError, SlotReturns
<1> QED
  BY <1>5, <1>6, <1>7, <1>8 DEF Next

LEMMA Starts ==
    ASSUME Next, state # "Connecting", state' = "Connecting"
    PROVE  \E mode \in OpenModes \ {{}} : ConnectStarts(mode)
<1>1. \A rest : /\ ReadNotification(rest) => state' = state
                /\ CompleteAsyncWrite(rest) => state' = state
                /\ FinishWrite(0, rest) => state' = state
  BY DEF ReadNotification, CompleteAsyncWrite, FinishWrite, connection
<1>2. \A rest : Disconnect(rest) => state' \in {state, "Unconnected"}
  BY DEF Disconnect, FinishDisconnect
<1>3. \A rest : CloseFrom(rest) => state' \in {state, "Unconnected", "Closing"}
  BY <1>2 DEF CloseFrom, connection
<1>4. ~Closing
  BY <1>2, <1>3 DEF Closing, Close, AfterClosing, AfterCloseError, FinishDisconnect
<1>5. ~Reading
  BY <1>1 DEF Reading, FrameArrives, ReadNotifierEvent, AfterReadyRead, AfterReadError,
              ReadFrame, ReadAll, Read, SetReadBufferSize, connection
<1>6. ~Writing
  BY <1>1 DEF Writing, WriteNotifierEvent, AfterBytesWritten, AfterWriteError,
              WriteFrame, WriteInvalid, Write, Flush, connection
<1>7. ~Waiting
  BY <1>1 DEF Waiting, WaitForReadyRead, WaitForBytesWritten, Wait, SelectReady, SelectFails,
              WaitLoop, WaitAfterRead, connection
<1>8. ~ClearError /\ ~SlotReturns
  BY DEF ClearError, SlotReturns, connection
<1>9. Connecting
  BY <1>4, <1>5, <1>6, <1>7, <1>8 DEF Next
<1> QED
  BY <1>3, <1>9 DEF Connecting, ConnectRefused, ConnectStarts, ConnectNoSocket, ConnectFails,
                    ConnectSucceeds, AfterConnectError, connection

LEMMA BeginsStep ==
    ASSUME SlotsKeepOut, TypeOK, CInv, Begins, Next
    PROVE  Begins'
<1> SUFFICES ASSUME state' = "Connecting"
             PROVE  buffer' = <<>> /\ rxCount' = 0 /\ got' = <<>> /\ sent' = <<>>
  BY DEF Begins
<1>1. CASE state # "Connecting"
  BY <1>1, Starts DEF ConnectStarts
<1>2. CASE state = "Connecting"
  <2>1. \A rest : Disconnect(rest) => UNCHANGED <<buffer, rxCount, got, sent>>
    BY DEF Disconnect, FinishDisconnect, history
  <2>2. \A rest : CloseFrom(rest) => UNCHANGED <<buffer, rxCount, got, sent>>
    BY <2>1 DEF CloseFrom, reading, history
  <2>3. Closing => UNCHANGED <<buffer, rxCount, got, sent>>
    BY <2>1, <2>2 DEF Closing, Close, AfterClosing, AfterCloseError, FinishDisconnect, history
  <2>4. Connecting => UNCHANGED <<buffer, rxCount, got, sent>>
    BY <1>2, <2>2 DEF Connecting, ConnectRefused, ConnectStarts, ConnectNoSocket, ConnectFails,
                      ConnectSucceeds, AfterConnectError, reading, history
  <2> QED
    BY <1>2, <2>3, <2>4, OnlyEnds DEF Begins
<1> QED
  BY <1>1, <1>2

LEMMA AlwaysBegins == ASSUME SlotsKeepOut PROVE Spec => []Begins
<1>1. Init => Begins
  BY DEF Init, Begins
<1>2. TypeOK /\ CInv /\ Begins /\ [Next]_vars => Begins'
  <2>1. Begins /\ UNCHANGED vars => Begins'
    BY DEF Begins, vars, connection, reading, history
  <2> QED
    BY <2>1, BeginsStep
<1>3. Spec => []CInv
  BY ConnectionInvariant
<1> QED
  BY <1>1, <1>2, <1>3, TypeCorrect, PTL DEF Spec

LEMMA ConnectingChannel ==
    ASSUME SlotsKeepOut, ErrorSlotsDoNotRead, TypeOK, TypeOK', CInv, HInv, Begins, Connecting
    PROVE  ChannelStep
<1>1. CASE ConnectRefused
  <2>1. Marks(stack) => "apiError" \in Deaf
    BY <1>1, DeafCall DEF ConnectRefused, SlotsOf
  <2>2. Carries(stack, Cons(Base("apiError"), stack))
    BY <2>1, CarriesPush DEF SlotLabels
  <2> QED
    BY <1>1, <2>2, Stutters DEF ConnectRefused, connection, reading, writing, history
<1>2. ASSUME NEW mode \in OpenModes, ConnectStarts(mode) PROVE ChannelStep
  <2>1. Marks(stack) => "apiError" \in Deaf /\ "connecting" \in Deaf
    BY <1>2, DeafCall DEF ConnectStarts, SlotsOf
  <2>2. CASE mode = {}
    <3>1. Carries(stack, Cons(Base("apiError"), stack))
      BY <2>1, CarriesPush DEF SlotLabels
    <3> QED
      BY <1>2, <2>2, <3>1, Stutters DEF ConnectStarts, connection, reading, writing, history
  <2>3. CASE mode # {}
    <3> DEFINE slot == [Base("connecting") EXCEPT !.mode = mode]
    <3>1. slot \in Record /\ slot.at = "connecting"
      BY BaseType, ConstantsAssumption DEF Base, SlotLabels
    <3>2. stack' = Cons(slot, stack)
      BY <1>2, <2>3 DEF ConnectStarts
    <3> HIDE DEF slot
    <3>3. Carries(stack, stack')
      BY <2>1, <3>1, <3>2, CarriesSelf, CarriesSlot DEF TypeOK
    <3>4. state = "Unconnected"
      BY <1>2 DEF ConnectStarts
    <3>5. ~IsOpen(descriptor)
      BY <3>4, NoSuchDescriptor DEF CInv, Resources
    <3> QED
      BY <1>2, <2>3, <3>3, <3>5, RenewChannel DEF ConnectStarts
  <2> QED
    BY <2>2, <2>3
<1>3. ASSUME Top("connecting"), NEW at \in {"connectError", "connected"}
      PROVE  /\ Carries(stack, Goto(at)) /\ ~IsOpen(descriptor) /\ state # "Connected"
             /\ buffer = <<>> /\ writeBuffer = <<>> /\ rxCount = 0 /\ got = <<>>
             /\ txCount = 0 /\ sent = <<>>
  <2>1. stack # <<>> /\ Head(stack).at = "connecting" /\ Context = "connecting"
    BY <1>3, TopIs
  <2>2. Marks(stack) => at \in Deaf
    BY <2>1, DeafSlot DEF SlotsAfter
  <2>3. Carries(stack, Goto(at))
    BY <2>1, <2>2, CarriesNext DEF SlotLabels
  <2>4. descriptor = -1 /\ state = "Connecting"
    BY <1>3, AtConnecting
  <2>5. writeBuffer = <<>> /\ txCount = 0
    BY <2>4 DEF CInv, Accounts
  <2> QED
    BY <2>3, <2>4, <2>5, NoSuchDescriptor DEF Begins
<1>4. CASE ConnectNoSocket
  <2>1. Carries(stack, stack')
    BY <1>3, <1>4 DEF ConnectNoSocket
  <2>2. ~IsOpen(descriptor)'
    <3>1. descriptor' = -1 /\ openFds' = openFds
      BY <1>4 DEF ConnectNoSocket
    <3> QED
      BY <3>1, NoSuchDescriptor DEF IsOpen
  <2> QED
    BY <1>4, <2>1, <2>2, ShutChannel DEF ConnectNoSocket, writing, history
<1>5. ASSUME NEW fd \in Fds \ openFds, ConnectFails(fd) PROVE ChannelStep
  <2>1. /\ Carries(stack, stack') /\ ~IsOpen(descriptor)
        /\ buffer = <<>> /\ writeBuffer = <<>> /\ rxCount = 0 /\ got = <<>>
        /\ txCount = 0 /\ sent = <<>>
    BY <1>3, <1>5 DEF ConnectFails
  <2>2. IsOpen(descriptor)'
    BY <1>5 DEF ConnectFails, IsOpen
  <2> QED
    BY <1>5, <2>1, <2>2, OpenChannel DEF ConnectFails, writing, history
<1>6. ASSUME NEW fd \in Fds \ openFds, ConnectSucceeds(fd) PROVE ChannelStep
  <2>1. /\ Carries(stack, stack') /\ ~IsOpen(descriptor)
        /\ buffer = <<>> /\ writeBuffer = <<>> /\ rxCount = 0 /\ got = <<>>
        /\ txCount = 0 /\ sent = <<>>
    BY <1>3, <1>6 DEF ConnectSucceeds
  <2>2. IsOpen(descriptor)'
    BY <1>6 DEF ConnectSucceeds, IsOpen
  <2> QED
    BY <1>6, <2>1, <2>2, OpenChannel DEF ConnectSucceeds, writing, history
<1>7. CASE AfterConnectError
  <2>1. stack # <<>> /\ Head(stack).at = "connectError" /\ Context = "connectError"
    BY <1>7, TopIs DEF AfterConnectError
  <2>2. Marks(stack) => "closing" \in Deaf
    BY <2>1, DeafSlot DEF SlotsAfter
  <2>3. Carries(stack, Below) /\ Below \in Seq(Record)
    BY <2>1, <2>2, CarriesNext DEF SlotLabels
  <2>4. state # "Closing"
    BY <2>1 DEF CInv, Places
  <2> QED
    BY <1>7, <2>2, <2>3, <2>4, CloseFromChannel DEF AfterConnectError
<1> QED
  BY <1>1, <1>2, <1>4, <1>5, <1>6, <1>7 DEF Connecting

(* disconnectFromInterface(), wherever it goes on from *)
LEMMA DisconnectChannel ==
    ASSUME SlotsKeepOut, TypeOK, HInv, NEW rest, Disconnect(rest), Carries(stack, rest),
           Carries(stack, Cons(Base("unconnected"), rest)),
           Carries(stack, Cons(Base("closeError"), rest))
    PROVE  ChannelStep
<1>1. descriptor > 0 \/ descriptor = -1
  <2>1. descriptor \in Fds \cup {-1}
    BY DEF TypeOK
  <2>2. \A fd \in Fds : fd > 0
    BY ConstantsAssumption DEF SlotsKeepOut
  <2> QED
    BY <2>1, <2>2
<1>2. /\ rxQueue' = <<>> /\ descriptor \notin openFds' /\ -1 \notin openFds'
  <2>1. CASE descriptor > 0
    <3>1. rxQueue' = <<>> /\ openFds' = openFds \ {descriptor}
      BY <2>1 DEF Disconnect
    <3>2. -1 \notin openFds
      BY NoSuchDescriptor DEF IsOpen
    <3> QED
      BY <3>1, <3>2
  <2>2. CASE descriptor = -1
    <3>1. ~IsOpen(descriptor)
      BY <2>2, NoSuchDescriptor
    <3> QED
      BY <2>2, <3>1 DEF Disconnect, HInv, IsOpen
  <2> QED
    BY <1>1, <2>1, <2>2
<1>3. CASE FinishDisconnect(rest)
  <2>1. Carries(stack, stack')
    BY <1>3 DEF FinishDisconnect
  <2>2. ~IsOpen(descriptor)'
    BY <1>2, <1>3 DEF FinishDisconnect, IsOpen
  <2> QED
    BY <1>2, <1>3, <2>1, <2>2, ShutChannel DEF FinishDisconnect, history
<1>4. CASE /\ stack' = Cons(Base("closeError"), rest)
           /\ UNCHANGED <<descriptor, buffer, writeBuffer, history>>
  <2>1. ~IsOpen(descriptor)'
    BY <1>2, <1>4 DEF IsOpen
  <2> QED
    BY <1>2, <1>4, <2>1, ShutChannel DEF history
<1> QED
  BY <1>3, <1>4 DEF Disconnect

LEMMA ClosingChannel ==
    ASSUME SlotsKeepOut, ErrorSlotsDoNotRead, TypeOK, TypeOK', CInv, HInv, Closing
    PROVE  ChannelStep
<1>1. ASSUME Close, state # "Closing" PROVE ChannelStep
  <2>1. Marks(stack) => "closing" \in Deaf
    BY <1>1, DeafCall DEF Close, SlotsOf
  <2> QED
    BY <1>1, <2>1, CarriesSelf, CloseFromChannel DEF Close, TypeOK
<1>2. ASSUME Close, state = "Closing" PROVE ChannelStep
  <2>1. Disconnect(stack)
    BY <1>2 DEF Close, CloseFrom
  <2>2. Context \in {"closing", "closeError"}
    BY <1>2 DEF CInv, Places
  <2>3. Context = "closeError"
    <3>1. <<Context, "close">> \in AppCalls /\ <<Context, "close">>[1] = Context
      BY <1>2 DEF Close, MayCall
    <3> QED
      BY <2>2, <3>1 DEF SlotsKeepOut
  <2>4. Marks(stack) => "closeError" \in Deaf /\ "unconnected" \in Deaf
    BY <2>3, DeafSlot DEF SlotsAfter
  <2>5. /\ Carries(stack, Cons(Base("unconnected"), stack))
        /\ Carries(stack, Cons(Base("closeError"), stack))
    BY <2>4, CarriesPush DEF SlotLabels
  <2> QED
    BY <2>1, <2>5, CarriesSelf, DisconnectChannel
<1>3. CASE AfterClosing
  <2>1. stack # <<>> /\ Head(stack).at = "closing" /\ Context = "closing"
    BY <1>3, TopIs DEF AfterClosing
  <2>2. Marks(stack) => "closeError" \in Deaf /\ "unconnected" \in Deaf
    BY <2>1, DeafSlot DEF SlotsAfter
  <2>3. /\ Carries(stack, Below)
        /\ Carries(stack, Cons(Base("unconnected"), Below))
        /\ Carries(stack, Cons(Base("closeError"), Below))
    BY <2>1, <2>2, CarriesNext DEF SlotLabels
  <2> QED
    BY <1>3, <2>3, DisconnectChannel DEF AfterClosing
<1>4. CASE AfterCloseError
  <2>1. stack # <<>> /\ Head(stack).at = "closeError" /\ Context = "closeError"
    BY <1>4, TopIs DEF AfterCloseError
  <2>2. FinishDisconnect(Below) /\ UNCHANGED <<openFds, rxQueue>>
    BY <1>4 DEF AfterCloseError
  <2>3. Marks(stack) => "unconnected" \in Deaf
    BY <2>1, DeafSlot DEF SlotsAfter
  <2>4. Carries(stack, stack')
    BY <2>1, <2>2, <2>3, FinishDisconnectCarries
  <2>5. openFds = {}
    BY <2>1 DEF CInv, Places, Resources
  <2>6. rxQueue = <<>> /\ ~IsOpen(descriptor)'
    BY <2>2, <2>5 DEF HInv, IsOpen
  <2> QED
    BY <2>2, <2>4, <2>6, ShutChannel DEF FinishDisconnect, history
<1> QED
  BY <1>1, <1>2, <1>3, <1>4 DEF Closing

-----------------------------------------------------------------------------
(* The other steps *)

LEMMA ArriveChannel ==
    ASSUME TypeOK, HInv, FrameArrives
    PROVE  ChannelStep
<1> DEFINE e == rxCount + 1
<1>1. /\ IsOpen(descriptor) /\ rxCount' = e /\ rxQueue' = Append(rxQueue, e)
      /\ UNCHANGED <<descriptor, openFds, buffer, writeBuffer, got, txCount, sent, stack>>
  BY DEF FrameArrives, connection, writing
<1>2. HInv'
  BY <1>1 DEF HInv, IsOpen, Unmarked, Avoids, Marks, Marked, MarkedAt
<1>3. Settled' = Settled
  BY <1>1, SettledIs, SettledIsNext
<1>4. rxQueue \in Seq(Nat) /\ e \in Nat
  <2>1. rxQueue \in Seq(Nat \ {0}) /\ rxCount \in Nat
    BY DEF TypeOK
  <2> QED
    BY <2>1, SeqMonotonic
<1> HIDE DEF e
<1>5. Bytes(rxQueue') = Bytes(rxQueue) \o [i \in 1 .. FrameSize |-> e]
  <2>1. <<e>> \in Seq(Nat) /\ Append(rxQueue, e) = rxQueue \o <<e>>
    BY <1>4, AppendIsConcat
  <2>2. Bytes(rxQueue \o <<e>>) = Bytes(rxQueue) \o Bytes(<<e>>)
    BY <1>4, <2>1, BytesConcat
  <2>3. Bytes(<<e>>) = [i \in 1 .. FrameSize |-> e]
    BY <1>4, BytesOfOne
  <2> QED
    BY <1>1, <2>1, <2>2, <2>3
<1>6. (Settled \o Bytes(rxQueue))' = (Settled \o Bytes(rxQueue)) \o [i \in 1 .. FrameSize |-> e]
  <2> DEFINE new == [i \in 1 .. FrameSize |-> e]
  <2>1. (Settled \o Bytes(rxQueue))' = Settled' \o Bytes(rxQueue')
    BY DEF Bytes
  <2>2. Settled \in Seq(Nat) /\ Bytes(rxQueue) \in Seq(Nat)
    BY SettledType
  <2>3. new \in Seq(Nat)
    BY <1>4, FrameSizeAssumption
  <2>4. Bytes(rxQueue') = Bytes(rxQueue) \o new
    BY <1>5
  <2> HIDE DEF new
  <2>5. (Settled \o Bytes(rxQueue)) \o new = Settled \o (Bytes(rxQueue) \o new)
    BY <2>2, <2>3, BytesAssociate, Zenon
  <2> QED
    BY <1>3, <2>1, <2>4, <2>5 DEF new
<1>7. UNCHANGED <<IsOpen(descriptor), txCount, Ids(writeBuffer), Ids(sent), got>>
  BY <1>1 DEF IsOpen, Ids
<1>8. Faulty!Arrive
  BY <1>1, <1>6, <1>7 DEF Faulty!Arrive, e
<1> QED
  BY <1>2, <1>8 DEF ChannelStep, Passes

LEMMA DeliverChannel ==
    ASSUME TypeOK, HInv, CInv, Idle, ~Marks(stack),
           NEW call, NEW n \in 0 .. Len(buffer), Read(call, n)
    PROVE  ChannelStep
<1>1. /\ got' = got \o First(buffer, n) /\ buffer' = Drop(buffer, n)
      /\ UNCHANGED <<descriptor, openFds, rxQueue, writeBuffer, rxCount, txCount, sent, stack>>
  BY DEF Read, connection, writing
<1>2. buffer \in Seq(Nat) /\ got \in Seq(Nat) /\ Len(buffer) \in Nat
  BY LenProperties DEF TypeOK
<1>3. IsOpen(descriptor)
  <2>1. "ReadOnly" \in openMode
    BY DEF Read
  <2>2. state = "Connected"
    BY <2>1 DEF CInv, Resources, Idle
  <2> QED
    BY <2>2 DEF CInv, Resources, IsOpen
<1>4. Unmarked(stack) /\ Settled = buffer /\ Settled' = buffer'
  <2>1. Unmarked(stack) /\ Settled = buffer
    BY Hearing
  <2>2. Unmarked(stack')
    BY <1>1, <2>1 DEF Unmarked, Avoids
  <2> QED
    BY <2>1, <2>2, SettledIsNext, SettledUnmarked
<1>5. HInv'
  BY <1>1, <1>3, <1>4 DEF HInv, IsOpen, Unmarked, Avoids
<1>6. CASE n = 0
  <2>1. First(buffer, 0) = <<>> /\ Drop(buffer, 0) = buffer
    BY <1>2, CutWhole, Zenon
  <2>2. got \o <<>> = got
    BY <1>2, ConcatEmptySeq
  <2>3. got' = got /\ buffer' = buffer
    BY <1>1, <1>6, <2>1, <2>2
  <2>4. Carries(stack, stack')
    BY <1>1, CarriesSelf
  <2> QED
    BY <1>1, <2>3, <2>4, Stutters
<1>7. CASE n # 0
  <2> DEFINE queue == Bytes(rxQueue)
  <2>1. queue \in Seq(Nat) /\ queue' = queue
    BY <1>1, SettledType DEF Bytes
  <2>2. (buffer \o queue)' = buffer' \o queue'
    OBVIOUS
  <2> HIDE DEF queue
  <2>3. First(buffer \o queue, n) = First(buffer, n)
        /\ Drop(buffer \o queue, n) = Drop(buffer, n) \o queue
    BY <1>2, <2>1, CutFront, Zenon
  <2>4. n \in 1 .. Len(buffer \o queue)
    <3>1. Len(buffer \o queue) = Len(buffer) + Len(queue) /\ Len(queue) \in Nat
      BY <1>2, <2>1, Joined
    <3> QED
      BY <1>2, <1>7, <3>1
  <2>5. /\ got' = got \o First(Settled \o queue, n)
        /\ (Settled \o queue)' = Drop(Settled \o queue, n)
    BY <1>1, <1>4, <2>1, <2>3
  <2>6. \E k \in 1 .. Len(Settled \o queue) :
            /\ got' = got \o SubSeq(Settled \o queue, 1, k)
            /\ (Settled \o queue)' = SubSeq(Settled \o queue, k + 1, Len(Settled \o queue))
    BY <1>4, <2>4, <2>5 DEF First, Drop
  <2>7. UNCHANGED <<IsOpen(descriptor), txCount, Ids(writeBuffer), Ids(sent), rxCount>>
    BY <1>1 DEF IsOpen, Ids
  <2>8. Faulty!Deliver
    BY <1>3, <2>6, <2>7 DEF Faulty!Deliver, Faulty!Take, Faulty!Skip, queue
  <2> QED
    BY <1>5, <2>8 DEF ChannelStep, Passes
<1> QED
  BY <1>6, <1>7

LEMMA SubmitChannel ==
    ASSUME TypeOK, HInv, CInv, Idle, NEW call, NEW valid \in BOOLEAN, Write(call, valid)
    PROVE  ChannelStep
<1> DEFINE frame == [id |-> txCount + 1, valid |-> valid]
<1>1. /\ txCount' = txCount + 1 /\ writeBuffer' = Append(writeBuffer, frame)
      /\ UNCHANGED <<descriptor, openFds, buffer, rxQueue, rxCount, got, sent, stack>>
  BY DEF Write, connection, reading
<1>2. writeBuffer \in Seq(Frame) /\ frame \in Frame /\ frame.id = txCount + 1
  BY DEF TypeOK, Frame
<1> HIDE DEF frame
<1>3. IsOpen(descriptor)
  <2>1. "WriteOnly" \in openMode
    BY DEF Write
  <2>2. state = "Connected"
    BY <2>1 DEF CInv, Resources, Idle
  <2> QED
    BY <2>2 DEF CInv, Resources, IsOpen
<1>4. Ids(writeBuffer') = Append(Ids(writeBuffer), txCount + 1)
  <2>1. <<frame>> \in Seq(Frame) /\ Append(writeBuffer, frame) = writeBuffer \o <<frame>>
    BY <1>2, AppendIsConcat
  <2>2. Ids(writeBuffer \o <<frame>>) = Ids(writeBuffer) \o Ids(<<frame>>)
    BY <1>2, <2>1, IdsConcat
  <2>3. Ids(<<frame>>) = <<txCount + 1>>
    BY <1>2 DEF Ids
  <2>4. Ids(writeBuffer) \in Seq(Nat) /\ txCount + 1 \in Nat
    BY <1>2, IdsAt DEF TypeOK
  <2>5. Append(Ids(writeBuffer), txCount + 1) = Ids(writeBuffer) \o <<txCount + 1>>
    BY <2>4, AppendIsConcat
  <2> QED
    BY <1>1, <2>1, <2>2, <2>3, <2>5
<1>5. HInv' /\ Inbox' = Inbox
  BY <1>1, CarriesSelf, SameReading
<1>6. UNCHANGED <<IsOpen(descriptor), Ids(sent), rxCount, got, Settled \o Bytes(rxQueue)>>
  BY <1>1, <1>5 DEF IsOpen, Ids, Inbox
<1>7. Ids(writeBuffer)' = Append(Ids(writeBuffer), txCount + 1)
  BY <1>4 DEF Ids
<1>8. Faulty!Submit
  BY <1>1, <1>3, <1>6, <1>7 DEF Faulty!Submit
<1> QED
  BY <1>5, <1>8 DEF ChannelStep, Passes

LEMMA ReadingChannel ==
    ASSUME SlotsKeepOut, ErrorSlotsDoNotRead, TypeOK, TypeOK', CInv, HInv, Reading
    PROVE  ChannelStep
<1>1. CASE FrameArrives
  BY <1>1, ArriveChannel
<1>2. CASE ReadNotifierEvent
  <2>1. Dispatching /\ Enabled(readNotifier) /\ IsOpen(readNotifier.fd) /\ ReadNotification(stack)
    BY <1>2 DEF ReadNotifierEvent, Readable
  <2>2. readNotifier.fd = descriptor
    BY <2>1 DEF CInv, Resources, NotifierBound, Enabled
  <2>3. Unmarked(stack)
    BY <2>1, LoopHears
  <2> QED
    BY <2>1, <2>2, <2>3, ReadNotificationChannel DEF TypeOK
<1>3. CASE AfterReadyRead
  <2>1. stack # <<>> /\ Head(stack).at = "readyRead" /\ stack' = Resume(TRUE, Below)
    BY <1>3, TopIs DEF AfterReadyRead
  <2>2. Carries(stack, Below) /\ Below \in Seq(Record)
    BY <2>1, CarriesBelow DEF TypeOK, Below
  <2>3. Carries(stack, stack')
    BY <2>1, <2>2, CarriesResume
  <2> QED
    BY <1>3, <2>3, Stutters DEF AfterReadyRead, connection, writing, history
<1>4. CASE AfterReadError
  <2>1. stack # <<>> /\ Head(stack).at = "readError" /\ Below = Tail(stack) /\ Below \in Seq(Record)
    BY <1>4, TopIs DEF AfterReadError
  <2>2. ~Unmarked(stack)
    BY <2>1, UnmarkedTail DEF TypeOK
  <2>3. PICK n \in Int : Marked(stack, n)
    BY <2>2 DEF HInv, Marks
  <2>4. Unmarked(Below) /\ Head(stack).chop = n
    BY <2>1, <2>3, MarkedParts DEF TypeOK
  <2>5. stack' = Resume(FALSE, Below) /\ buffer' = Chop(buffer, n)
    BY <1>4, <2>4 DEF AfterReadError
  <2>6. Unmarked(stack')
    BY <2>1, <2>4, <2>5, AvoidsResume DEF Unmarked
  <2>7. Settled' = Settled
    <3>1. Settled' = buffer'
      BY <2>6, SettledIsNext, SettledUnmarked
    <3>2. Settled = Chop(buffer, n)
      BY <2>3, SettledIs, SettledMarked
    <3> QED
      BY <2>5, <3>1, <3>2
  <2>8. UNCHANGED <<descriptor, openFds, rxQueue, writeBuffer, rxCount, got, txCount, sent>>
    BY <1>4 DEF AfterReadError, connection, writing, history
  <2>9. HInv' /\ Inbox' = Inbox
    BY <2>6, <2>7, <2>8 DEF HInv, Inbox, Bytes, IsOpen, Unmarked, Avoids
  <2> QED
    BY <2>8, <2>9, SameInbox
<1>5. ASSUME NEW call \in {"read", "readAll"}, NEW n \in 0 .. Len(buffer), Read(call, n)
      PROVE  ChannelStep
  <2>1. MayCall(call) /\ call \in Receives /\ call # "close"
    BY <1>5 DEF Read, Receives
  <2>2. ~Marks(stack) /\ Idle
    BY <2>1, DeafCall, Callers
  <2> QED
    BY <1>5, <2>2, DeliverChannel
<1>6. CASE ReadFrame
  <2>1. Len(buffer) \in Nat /\ FrameSize \in Nat
    BY LenProperties, FrameSizeAssumption DEF TypeOK
  <2>2. PICK n : n = (IF Len(buffer) < FrameSize THEN Len(buffer) ELSE FrameSize)
    OBVIOUS
  <2>3. n \in 0 .. Len(buffer)
    BY <2>1, <2>2
  <2>4. Read("read", n)
    BY <1>6, <2>2 DEF ReadFrame
  <2> QED
    BY <1>5, <2>3, <2>4
<1>7. CASE ReadAll
  <2>1. Len(buffer) \in 0 .. Len(buffer)
    BY LenProperties DEF TypeOK
  <2>2. Read("readAll", Len(buffer))
    BY <1>7 DEF ReadAll
  <2> QED
    BY <1>5, <2>1, <2>2
<1>8. ASSUME NEW size \in BufferSizes, SetReadBufferSize(size) PROVE ChannelStep
  <2>1. Carries(stack, stack')
    BY <1>8, CarriesSelf DEF SetReadBufferSize
  <2> QED
    BY <1>8, <2>1, Stutters DEF SetReadBufferSize, connection, writing, history
<1> QED
  BY <1>1, <1>2, <1>3, <1>4, <1>6, <1>7, <1>8 DEF Reading

LEMMA WritingChannel ==
    ASSUME SlotsKeepOut, ErrorSlotsDoNotRead, TypeOK, TypeOK', CInv, HInv, Writing
    PROVE  ChannelStep
<1>1. stack \in Seq(Record)
  BY DEF TypeOK
<1>2. CASE WriteNotifierEvent
  <2>1. Dispatching /\ CompleteAsyncWrite(stack)
    BY <1>2 DEF WriteNotifierEvent
  <2>2. ~Marks(stack)
    BY <2>1, LoopHears
  <2> QED
    BY <1>1, <2>1, <2>2, CarriesSelf, CompleteAsyncWriteChannel
<1>3. CASE Flush
  <2>1. MayCall("flush") /\ CompleteAsyncWrite(stack)
    BY <1>3 DEF Flush
  <2>2. Marks(stack) => {"bytesWritten", "writeError"} \subseteq Deaf
    BY <2>1, DeafCall DEF SlotsOf
  <2> QED
    BY <1>1, <2>1, <2>2, CarriesSelf, CompleteAsyncWriteChannel
<1>4. CASE AfterBytesWritten
  <2>1. stack # <<>> /\ Head(stack).at = "bytesWritten" /\ Context = "bytesWritten"
    BY <1>4, TopIs DEF AfterBytesWritten
  <2>2. Marks(stack) => "writeError" \in Deaf
    BY <2>1, DeafSlot DEF SlotsAfter
  <2>3. Carries(stack, Below) /\ Below \in Seq(Record)
    BY <1>1, <2>1, CarriesBelow DEF Below
  <2>4. FinishWrite(0, Below)
    BY <1>4 DEF AfterBytesWritten
  <2> QED
    BY <2>2, <2>3, <2>4, FinishWriteChannel
<1>5. CASE AfterWriteError
  <2>1. stack # <<>> /\ Head(stack).at = "writeError" /\ stack' = Resume(FALSE, Below)
    BY <1>5, TopIs DEF AfterWriteError
  <2>2. Carries(stack, Below) /\ Below \in Seq(Record)
    BY <1>1, <2>1, CarriesBelow DEF Below
  <2>3. Carries(stack, stack')
    BY <2>1, <2>2, CarriesResume
  <2> QED
    BY <1>5, <2>3, Stutters DEF AfterWriteError, connection, reading, writing, history
<1>6. ASSUME NEW call \in {"write", "writeInvalid"}, NEW valid \in BOOLEAN, Write(call, valid)
      PROVE  ChannelStep
  <2>1. MayCall(call) /\ call # "close"
    BY <1>6 DEF Write
  <2>2. Idle
    BY <2>1, Callers
  <2> QED
    BY <1>6, <2>2, SubmitChannel
<1>7. CASE WriteFrame
  BY <1>6, <1>7 DEF WriteFrame
<1>8. CASE WriteInvalid
  BY <1>6, <1>8 DEF WriteInvalid
<1> QED
  BY <1>2, <1>3, <1>4, <1>5, <1>7, <1>8 DEF Writing

LEMMA WaitingChannel ==
    ASSUME SlotsKeepOut, ErrorSlotsDoNotRead, TypeOK, TypeOK', CInv, HInv, Waiting
    PROVE  ChannelStep
<1>1. ASSUME NEW forever \in Forever, WaitForReadyRead(forever) \/ WaitForBytesWritten(forever)
      PROVE  ChannelStep
  <2>1. PICK at \in {"rr.select", "bw.select"} : Wait(at, forever)
    BY <1>1 DEF WaitForReadyRead, WaitForBytesWritten
  <2>2. PICK call \in {"waitForReadyRead", "waitForBytesWritten"} : MayCall(call)
    BY <1>1 DEF WaitForReadyRead, WaitForBytesWritten
  <2>3. ~Marks(stack)
    BY <2>2, DeafCall DEF Receives
  <2> DEFINE record == [Base(at) EXCEPT !.forever = forever]
  <2>4. record \in Record /\ record.at = at /\ at # "readError"
    BY BaseType, ConstantsAssumption DEF Base, WaitLabels
  <2>5. stack' = Cons(record, stack)
    BY <2>1 DEF Wait
  <2> HIDE DEF record
  <2>6. Carries(stack, stack')
    BY <2>3, <2>4, <2>5, CarriesSelf, CarriesSlot DEF TypeOK
  <2> QED
    BY <2>1, <2>6, Stutters DEF Wait, connection, reading, writing, history
<1>2. ASSUME NEW readable \in BOOLEAN, NEW writable \in BOOLEAN, SelectReady(readable, writable)
      PROVE  ChannelStep
  <2> DEFINE reader == IF Top("rr.select") THEN "rr.read" ELSE "bw.read"
             writer == IF Top("rr.select") THEN "rr.write" ELSE "bw.write"
             record == [Head(stack) EXCEPT !.at = reader, !.readyToWrite = writable]
  <2>1. Context \in WaitLabels /\ IsOpen(descriptor)
    BY <1>2 DEF SelectReady, WaitLabels
  <2>2. stack # <<>> /\ Head(stack).at = Context /\ ~Marks(stack) /\ Unmarked(stack)
    BY <2>1, WaitHears
  <2>3. \/ ReadNotification(Cons(record, Below))
        \/ CompleteAsyncWrite(Goto(writer))
    BY <1>2 DEF SelectReady
  <2>4. reader \in WaitLabels /\ writer \in WaitLabels /\ reader # "readError" /\ writer # "readError"
    BY DEF WaitLabels
  <2> HIDE DEF reader, writer
  <2>5. Head(stack) \in Record /\ Below \in Seq(Record) /\ Unmarked(Below)
    BY <2>2, StackType, UnmarkedTail DEF TypeOK, Below
  <2>6. record \in Record /\ record.at = reader
    BY <2>4, <2>5 DEF Record
  <2> HIDE DEF record
  <2>7. Cons(record, Below) \in Seq(Record) /\ Unmarked(Cons(record, Below))
    BY <2>4, <2>5, <2>6, ConsRecord, UnmarkedCons
  <2>8. Carries(stack, Goto(writer)) /\ Goto(writer) \in Seq(Record)
    BY <2>1, <2>2, <2>4, CarriesNext DEF WaitLabels
  <2> QED
    BY <2>1, <2>2, <2>3, <2>7, <2>8, ReadNotificationChannel, CompleteAsyncWriteChannel
<1>3. ASSUME Context \in WaitLabels,
             UNCHANGED <<connection, reading, writing, history>>,
             \/ stack' = Below
             \/ \E at \in (SlotLabels \cup WaitLabels) \ {"readError"} :
                    stack' \in {Cons(Base(at), Below), Goto(at)}
      PROVE  ChannelStep
  <2>1. stack # <<>> /\ Head(stack).at = Context /\ ~Marks(stack)
    BY <1>3, WaitHears
  <2>2. Head(stack).at # "readError"
    BY <1>3, <2>1 DEF WaitLabels
  <2>3. Carries(stack, Below)
    BY <2>2, <2>1, CarriesBelow DEF TypeOK, Below
  <2>4. \A at \in (SlotLabels \cup WaitLabels) \ {"readError"} :
            Carries(stack, Cons(Base(at), Below)) /\ Carries(stack, Goto(at))
    BY <2>1, <2>2, CarriesNext
  <2>5. Carries(stack, stack')
    BY <1>3, <2>3, <2>4
  <2> QED
    BY <1>3, <2>5, Stutters DEF connection, reading, writing, history
<1>4. CASE SelectFails
  BY <1>3, <1>4 DEF SelectFails, WaitLabels, SlotLabels
<1>5. CASE WaitLoop
  <2>1. Context = "rr.loop"
    BY <1>5, TopIs DEF WaitLoop
  <2> QED
    BY <1>3, <1>5, <2>1 DEF WaitLoop, WaitLabels
<1>6. CASE WaitAfterRead
  <2>1. Context = "bw.afterRead"
    BY <1>6, TopIs DEF WaitAfterRead
  <2>2. CASE Head(stack).readyToWrite
    <3>1. stack # <<>> /\ Head(stack).at = Context /\ ~Marks(stack)
      BY <2>1, WaitHears DEF WaitLabels
    <3>2. Carries(stack, Goto("bw.write")) /\ Goto("bw.write") \in Seq(Record)
      BY <2>1, <3>1, CarriesNext DEF WaitLabels
    <3>3. CompleteAsyncWrite(Goto("bw.write"))
      BY <1>6, <2>2 DEF WaitAfterRead
    <3> QED
      BY <3>1, <3>2, <3>3, CompleteAsyncWriteChannel
  <2>3. CASE ~Head(stack).readyToWrite
    BY <1>3, <1>6, <2>1, <2>3 DEF WaitAfterRead, WaitLabels
  <2> QED
    BY <2>2, <2>3
<1> QED
  BY <1>1, <1>2, <1>4, <1>5, <1>6 DEF Waiting

-----------------------------------------------------------------------------
LEMMA InitHInv == Init => HInv
<1> SUFFICES ASSUME Init PROVE HInv
  OBVIOUS
<1>1. Unmarked(stack)
  BY DEF Init, Unmarked, Avoids
<1> QED
  BY <1>1 DEF Init, HInv

LEMMA NextChannel ==
    ASSUME SlotsKeepOut, ErrorSlotsDoNotRead, TypeOK, TypeOK', CInv, HInv, Begins, Next
    PROVE  ChannelStep
<1>1. CASE ClearError
  <2>1. MayCall("clearError") /\ stack' = Cons(Base("apiError"), stack)
    BY <1>1 DEF ClearError
  <2>2. Marks(stack) => "apiError" \in Deaf
    BY <2>1, DeafCall DEF SlotsOf
  <2>3. Carries(stack, stack')
    BY <2>1, <2>2, CarriesPush DEF SlotLabels
  <2> QED
    BY <1>1, <2>3, Stutters DEF ClearError, connection, reading, writing, history
<1>2. CASE SlotReturns
  <2>1. stack # <<>> /\ Head(stack).at # "readError" /\ stack' = Below
    BY <1>2 DEF SlotReturns, Context
  <2>2. Carries(stack, stack')
    BY <2>1, CarriesBelow DEF TypeOK, Below
  <2> QED
    BY <1>2, <2>2, Stutters DEF SlotReturns, connection, reading, writing, history
<1> QED
  BY <1>1, <1>2, ConnectingChannel, ClosingChannel, ReadingChannel, WritingChannel,
     WaitingChannel DEF Next

LEMMA StepChannel ==
    ASSUME SlotsKeepOut, ErrorSlotsDoNotRead, TypeOK, TypeOK', CInv, HInv, Begins, [Next]_vars
    PROVE  ChannelStep
<1>1. CASE UNCHANGED vars
  <2>1. Carries(stack, stack')
    BY <1>1, CarriesSelf DEF vars
  <2> QED
    BY <1>1, <2>1, Stutters DEF vars, connection, reading, writing, history
<1> QED
  BY <1>1, NextChannel

(* There is never more than one failed read whose reserved bytes are still *)
(* in the buffer, and no queue outlives its descriptor.                    *)
THEOREM OneFailedRead == ASSUME SlotsKeepOut, ErrorSlotsDoNotRead PROVE Spec => []HInv
<1>1. TypeOK /\ TypeOK' /\ CInv /\ HInv /\ Begins /\ [Next]_vars => HInv'
  BY StepChannel DEF ChannelStep
<1>2. Spec => []CInv
  BY ConnectionInvariant
<1>3. Spec => []Begins
  BY AlwaysBegins
<1> QED
  BY <1>1, <1>2, <1>3, InitHInv, TypeCorrect, PTL DEF Spec

LEMMA InitChannel ==
    ASSUME Init
    PROVE  ~IsOpen(descriptor) /\ IsOpen(descriptor) = FALSE /\ txCount = 0 /\ Ids(writeBuffer) = <<>>
           /\ Ids(sent) = <<>> /\ rxCount = 0 /\ Settled \o Bytes(rxQueue) = <<>> /\ got = <<>>
<1>1. ~IsOpen(descriptor)
  BY DEF Init, IsOpen
<1>2. Settled = <<>>
  <2>1. Unmarked(stack)
    BY DEF Init, Unmarked, Avoids
  <2> QED
    BY <2>1, SettledIs, SettledUnmarked DEF Init
<1>3. Bytes(rxQueue) = <<>> /\ Ids(writeBuffer) = <<>> /\ Ids(sent) = <<>>
  BY BytesOfNone, IdsOfNone DEF Init
<1>4. <<>> \o <<>> = <<>>
  OBVIOUS
<1> QED
  BY <1>1, <1>2, <1>3, <1>4 DEF Init, IsOpen

(* The socket implements the channels that may lose and repeat: with any   *)
(* errors of the interface, in any nesting of slots, frames are sent again *)
(* or lost on the way in, and nothing is reordered or invented.            *)
THEOREM ImplementsFaultyChannel ==
    ASSUME SlotsKeepOut, ErrorSlotsDoNotRead
    PROVE  Spec => FaultyChannel
<1>1. Init => Faulty!ChInit
  BY InitChannel DEF Faulty!ChInit, Faulty!Fresh
<1>2. TypeOK /\ TypeOK' /\ CInv /\ HInv /\ Begins /\ [Next]_vars
        => [Faulty!ChNext]_(Faulty!chVars)
  <2> SUFFICES ASSUME TypeOK, TypeOK', CInv, HInv, Begins, [Next]_vars
               PROVE  [Faulty!ChNext]_(Faulty!chVars)
    OBVIOUS
  <2>1. Passes \/ Faulty!Lose \/ Faulty!Retransmit
    BY StepChannel DEF ChannelStep
  <2> QED
    BY <2>1 DEF Passes, Faulty!ChNext
<1>3. Spec => []CInv
  BY ConnectionInvariant
<1>4. Spec => []HInv
  BY OneFailedRead
<1>5. Spec => []Begins
  BY AlwaysBegins
<1> QED
  BY <1>1, <1>2, <1>3, <1>4, <1>5, TypeCorrect, PTL DEF Spec, FaultyChannel, Faulty!ChSpec

-----------------------------------------------------------------------------
(* Without errors.  The interface makes none, and the application writes   *)
(* frames that carry the mark of CAN_MTU: a write of anything else fails   *)
(* as writes do when the interface refuses them.                           *)
NoIOErrors ==
    /\ ReadErrors = {} /\ WriteErrors = {}
    /\ \A c \in AppCalls : c[2] # "writeInvalid"

AllValid == \A i \in 1 .. Len(writeBuffer) : writeBuffer[i].valid

(* What a step can do to the write buffer *)
WritesOnce ==
    \/ writeBuffer' = writeBuffer \/ writeBuffer' = <<>>
    \/ \E n \in 0 .. Len(writeBuffer) : writeBuffer' = Drop(writeBuffer, n)
    \/ \E id \in Nat : writeBuffer' = Append(writeBuffer, [id |-> id, valid |-> TRUE])

LEMMA FinishWriteOnce ==
    ASSUME NEW pending, NEW rest, FinishWrite(pending, rest)
    PROVE  WritesOnce
<1>1. CASE writeBuffer = <<>>
  BY <1>1 DEF FinishWrite, WritesOnce
<1>2. CASE writeBuffer # <<>>
  <2>1. PICK o \in WriteOutcomes(writeBuffer, IsOpen(descriptor), WriteErrors) :
            \/ writeBuffer' = Drop(writeBuffer, o.frames)
            \/ writeBuffer' = writeBuffer
    BY <1>2 DEF FinishWrite
  <2>2. o.frames \in 0 .. Len(writeBuffer)
    BY WriteOutcomesType
  <2> QED
    BY <2>1, <2>2 DEF WritesOnce
<1> QED
  BY <1>1, <1>2

LEMMA CompleteAsyncWriteOnce ==
    ASSUME NEW rest, CompleteAsyncWrite(rest)
    PROVE  WritesOnce
<1>1. CASE pendingBytesWritten > 0 /\ ~emittedBytesWritten
  BY <1>1 DEF CompleteAsyncWrite, WritesOnce
<1>2. CASE ~(pendingBytesWritten > 0 /\ ~emittedBytesWritten)
  BY <1>2, FinishWriteOnce DEF CompleteAsyncWrite
<1> QED
  BY <1>1, <1>2

LEMMA NextWritesOnce ==
    ASSUME NoIOErrors, TypeOK, Next
    PROVE  WritesOnce
<1>1. ASSUME Connecting PROVE WritesOnce
  <2>1. \A mode \in OpenModes : ConnectStarts(mode) => writeBuffer' \in {writeBuffer, <<>>}
    BY DEF ConnectStarts, writing
  <2>2. AfterConnectError => writeBuffer' = writeBuffer
    BY DEF AfterConnectError, CloseFrom, Disconnect, FinishDisconnect, writing
  <2> QED
    BY <1>1, <2>1, <2>2
       DEF Connecting, ConnectRefused, ConnectNoSocket, ConnectFails, ConnectSucceeds, writing,
           WritesOnce
<1>2. ASSUME Closing PROVE WritesOnce
  BY <1>2 DEF Closing, Close, CloseFrom, AfterClosing, AfterCloseError, Disconnect,
     FinishDisconnect, writing, WritesOnce
<1>3. ASSUME Reading PROVE WritesOnce
  BY <1>3 DEF Reading, FrameArrives, ReadNotifierEvent, ReadNotification, AfterReadyRead,
     AfterReadError, ReadFrame, ReadAll, Read, SetReadBufferSize, writing, WritesOnce
<1>4. ASSUME Writing PROVE WritesOnce
  <2>1. ASSUME WriteFrame PROVE WritesOnce
    <3>1. txCount + 1 \in Nat
      BY DEF TypeOK
    <3> QED
      BY <2>1, <3>1 DEF WriteFrame, Write, WritesOnce
  <2>2. ~WriteInvalid
    BY DEF WriteInvalid, Write, MayCall, NoIOErrors
  <2>3. AfterWriteError => writeBuffer' = writeBuffer
    BY DEF AfterWriteError, writing
  <2> QED
    BY <1>4, <2>1, <2>2, <2>3, FinishWriteOnce, CompleteAsyncWriteOnce
       DEF Writing, WriteNotifierEvent, Flush, AfterBytesWritten, WritesOnce
<1>5. ASSUME Waiting PROVE WritesOnce
  <2>1. ASSUME NEW readable \in BOOLEAN, NEW writable \in BOOLEAN,
               SelectReady(readable, writable)
        PROVE  WritesOnce
    <3>1. (\E rest : ReadNotification(rest)) \/ (\E rest : CompleteAsyncWrite(rest))
      BY <2>1 DEF SelectReady
    <3>2. (\E rest : ReadNotification(rest)) => writeBuffer' = writeBuffer
      BY DEF ReadNotification, writing
    <3> QED
      BY <3>1, <3>2, CompleteAsyncWriteOnce DEF WritesOnce
  <2>2. ASSUME WaitAfterRead PROVE WritesOnce
    BY <2>2, CompleteAsyncWriteOnce DEF WaitAfterRead, writing, WritesOnce
  <2> QED
    BY <1>5, <2>1, <2>2
       DEF Waiting, WaitForReadyRead, WaitForBytesWritten, Wait, SelectFails, WaitLoop,
           writing, WritesOnce
<1>6. ASSUME ClearError \/ SlotReturns PROVE WritesOnce
  BY <1>6 DEF ClearError, SlotReturns, writing, WritesOnce
<1> QED
  BY <1>1, <1>2, <1>3, <1>4, <1>5, <1>6 DEF Next

LEMMA ValidStays ==
    ASSUME TypeOK, AllValid, WritesOnce
    PROVE  AllValid'
<1>1. writeBuffer \in Seq(Frame) /\ Len(writeBuffer) \in Nat
  BY LenProperties DEF TypeOK
<1>2. CASE writeBuffer' = writeBuffer
  BY <1>2 DEF AllValid
<1>3. CASE writeBuffer' = <<>>
  BY <1>3 DEF AllValid
<1>4. ASSUME NEW n \in 0 .. Len(writeBuffer), writeBuffer' = Drop(writeBuffer, n)
      PROVE  AllValid'
  <2>1. /\ First(writeBuffer, n) \in Seq(Frame) /\ Len(First(writeBuffer, n)) = n
        /\ Drop(writeBuffer, n) \in Seq(Frame)
        /\ First(writeBuffer, n) \o Drop(writeBuffer, n) = writeBuffer
        /\ Len(Drop(writeBuffer, n)) = Len(writeBuffer) - n
    BY <1>1, CutInTwo, Zenon
  <2> DEFINE a == First(writeBuffer, n)
             b == Drop(writeBuffer, n)
  <2> HIDE DEF a, b
  <2>2. /\ a \in Seq(Frame) /\ Len(a) = n /\ b \in Seq(Frame) /\ a \o b = writeBuffer
        /\ Len(b) = Len(writeBuffer) - n
    BY <2>1 DEF a, b
  <2>3. \A i \in 1 .. Len(b) : (a \o b)[Len(a) + i] = b[i]
    <3>1. a \in Seq(Frame) /\ b \in Seq(Frame)
      BY <2>2
    <3> QED
      BY <3>1, Joined
  <2>4. ASSUME NEW i \in 1 .. Len(b) PROVE b[i].valid
    <3>1. n + i \in 1 .. Len(writeBuffer)
      BY <1>1, <2>2
    <3> QED
      BY <2>2, <2>3, <3>1 DEF AllValid
  <2> QED
    BY <1>4, <2>4 DEF AllValid, b
<1>5. ASSUME NEW id \in Nat, writeBuffer' = Append(writeBuffer, [id |-> id, valid |-> TRUE])
      PROVE  AllValid'
  <2>1. /\ Len(writeBuffer') = Len(writeBuffer) + 1
        /\ \A i \in 1 .. Len(writeBuffer) : writeBuffer'[i] = writeBuffer[i]
        /\ writeBuffer'[Len(writeBuffer) + 1] = [id |-> id, valid |-> TRUE]
    BY <1>1, <1>5
  <2>2. ASSUME NEW i \in 1 .. Len(writeBuffer) + 1 PROVE writeBuffer'[i].valid
    <3>1. i \in 1 .. Len(writeBuffer) \/ i = Len(writeBuffer) + 1
      BY <1>1
    <3> QED
      BY <2>1, <3>1 DEF AllValid
  <2> QED
    BY <2>1, <2>2 DEF AllValid
<1> QED
  BY <1>2, <1>3, <1>4, <1>5 DEF WritesOnce

LEMMA AlwaysValid == ASSUME NoIOErrors PROVE Spec => []AllValid
<1>1. Init => AllValid
  BY DEF Init, AllValid
<1>2. TypeOK /\ AllValid /\ [Next]_vars => AllValid'
  <2>1. ASSUME TypeOK, AllValid, Next PROVE AllValid'
    BY <2>1, NextWritesOnce, ValidStays
  <2>2. AllValid /\ UNCHANGED vars => AllValid'
    BY DEF AllValid, vars, writing
  <2> QED
    BY <2>1, <2>2
<1> QED
  BY <1>1, <1>2, TypeCorrect, PTL DEF Spec

LEMMA NothingReads ==
    ASSUME NoIOErrors
    PROVE  ErrorSlotsDoNotRead
<1>1. KeepsOff({})
  BY DEF NoIOErrors, KeepsOff
<1> QED
  BY <1>1 DEF ErrorSlotsDoNotRead

(* Without errors the socket implements the channels that neither lose nor *)
(* repeat: every frame written is sent once and in order, every frame      *)
(* received is delivered once and in order, in any nesting of slots,       *)
(* notifier events, waits and connections.                                 *)
THEOREM ImplementsReliableChannel ==
    ASSUME SlotsKeepOut, NoIOErrors
    PROVE  Spec => ReliableChannel
<1>1. Init => Reliable!ChInit
  BY InitChannel DEF Reliable!ChInit, Reliable!Fresh
<1>2. TypeOK /\ TypeOK' /\ CInv /\ HInv /\ Begins /\ AllValid /\ [Next]_vars
        => [Reliable!ChNext]_(Reliable!chVars)
  <2> SUFFICES ASSUME TypeOK, TypeOK', CInv, HInv, Begins, AllValid, [Next]_vars
               PROVE  [Reliable!ChNext]_(Reliable!chVars)
    OBVIOUS
  <2>1. ReadErrors = {} /\ ~WritesMayFail
    BY DEF NoIOErrors, WritesMayFail, AllValid
  <2>2. Passes
    BY <2>1, NothingReads, StepChannel DEF ChannelStep
  <2>3. UNCHANGED Faulty!chVars => UNCHANGED Reliable!chVars
    BY DEF Faulty!chVars, Reliable!chVars
  <2>4. /\ Faulty!Renew => Reliable!Renew
        /\ Faulty!Open => Reliable!Open
        /\ Faulty!Shut => Reliable!Shut
    BY DEF Faulty!Renew, Faulty!Fresh, Faulty!Open, Faulty!Shut, Faulty!Take,
           Reliable!Renew, Reliable!Fresh, Reliable!Open, Reliable!Shut, Reliable!Take
  <2>5. /\ Faulty!Submit => Reliable!Submit
        /\ Faulty!Transmit => Reliable!Transmit
        /\ Faulty!Arrive => Reliable!Arrive
        /\ Faulty!Deliver => Reliable!Deliver
    BY DEF Faulty!Submit, Faulty!Transmit, Faulty!Arrive, Faulty!Deliver, Faulty!Take,
           Faulty!Skip, Reliable!Submit, Reliable!Transmit, Reliable!Arrive,
           Reliable!Deliver, Reliable!Take, Reliable!Skip
  <2> QED
    BY <2>2, <2>3, <2>4, <2>5 DEF Passes, Reliable!ChNext
<1>3. Spec => []CInv
  BY ConnectionInvariant
<1>4. Spec => []HInv
  BY NothingReads, OneFailedRead
<1>5. Spec => []Begins
  BY AlwaysBegins
<1>6. Spec => []AllValid
  BY AlwaysValid
<1> QED
  BY <1>1, <1>2, <1>3, <1>4, <1>5, <1>6, TypeCorrect, PTL DEF Spec, ReliableChannel, Reliable!ChSpec

-----------------------------------------------------------------------------
(* What the channels promise their user, the socket promises its own       *)
ReliableProofs == INSTANCE FrameChannelProofs WITH
    Faults <- {}, UnitsPerFrame <- FrameSize,
    up <- IsOpen(descriptor),
    submitted <- txCount, outbox <- Ids(writeBuffer), wire <- Ids(sent),
    arrived <- rxCount, inbox <- Settled \o Bytes(rxQueue), delivered <- got

FaultyProofs == INSTANCE FrameChannelProofs WITH
    Faults <- {"resend", "lose"}, UnitsPerFrame <- FrameSize,
    up <- IsOpen(descriptor),
    submitted <- txCount, outbox <- Ids(writeBuffer), wire <- Ids(sent),
    arrived <- rxCount, inbox <- Settled \o Bytes(rxQueue), delivered <- got

(* Whatever fails, frames reach the interface in the order in which they   *)
(* were written, none left out before a later one; what the application    *)
(* reads is in the order in which it arrived, and no byte is made up or    *)
(* read twice.                                                             *)
THEOREM FramesInOrder ==
    ASSUME SlotsKeepOut, ErrorSlotsDoNotRead
    PROVE  Spec => [](Faulty!SentInOrder /\ Faulty!ReceivedInOrder)
<1>1. Faulty!ChInit <=> FaultyProofs!ChInit
  BY DEF Faulty!ChInit, FaultyProofs!ChInit, Faulty!Fresh, FaultyProofs!Fresh
<1>2. [Faulty!ChNext]_(Faulty!chVars) <=> [FaultyProofs!ChNext]_(FaultyProofs!chVars)
  BY DEF
     Faulty!ChNext, FaultyProofs!ChNext, Faulty!chVars, FaultyProofs!chVars, Faulty!Fresh,
     FaultyProofs!Fresh, Faulty!Renew, FaultyProofs!Renew, Faulty!Open, FaultyProofs!Open,
     Faulty!Shut, FaultyProofs!Shut, Faulty!Submit, FaultyProofs!Submit, Faulty!Transmit,
     FaultyProofs!Transmit, Faulty!Retransmit, FaultyProofs!Retransmit, Faulty!Arrive,
     FaultyProofs!Arrive, Faulty!Deliver, FaultyProofs!Deliver, Faulty!Lose,
     FaultyProofs!Lose, Faulty!Take, FaultyProofs!Take, Faulty!Skip, FaultyProofs!Skip
<1>3. FaultyProofs!ChSpec => []FaultyProofs!SentInOrder
  BY FaultyProofs!AlwaysSentInOrder
<1>4. FaultyProofs!ChSpec => []FaultyProofs!ReceivedInOrder
  BY FrameSizeAssumption, FaultyProofs!AlwaysReceivedInOrder
<1>5. /\ FaultyProofs!SentInOrder => Faulty!SentInOrder
      /\ FaultyProofs!ReceivedInOrder => Faulty!ReceivedInOrder
  BY DEF Faulty!SentInOrder, FaultyProofs!SentInOrder,
         Faulty!ReceivedInOrder, FaultyProofs!ReceivedInOrder
<1>6. Spec => Faulty!ChSpec
  BY ImplementsFaultyChannel DEF FaultyChannel
<1> QED
  BY <1>1, <1>2, <1>3, <1>4, <1>5, <1>6, PTL DEF Faulty!ChSpec, FaultyProofs!ChSpec

(* Without errors every frame written is given to the interface exactly    *)
(* once, and what the application has read and what waits for it is        *)
(* exactly what arrived, byte for byte, as long as the socket is open.     *)
THEOREM FramesOnce ==
    ASSUME SlotsKeepOut, NoIOErrors
    PROVE  Spec => [](Reliable!SentOnce /\ Reliable!ReceivedOnce)
<1>1. Reliable!ChInit <=> ReliableProofs!ChInit
  BY DEF Reliable!ChInit, ReliableProofs!ChInit, Reliable!Fresh, ReliableProofs!Fresh
<1>2. [Reliable!ChNext]_(Reliable!chVars) <=> [ReliableProofs!ChNext]_(ReliableProofs!chVars)
  BY DEF
     Reliable!ChNext, ReliableProofs!ChNext, Reliable!chVars, ReliableProofs!chVars,
     Reliable!Fresh, ReliableProofs!Fresh, Reliable!Renew, ReliableProofs!Renew,
     Reliable!Open, ReliableProofs!Open, Reliable!Shut, ReliableProofs!Shut,
     Reliable!Submit, ReliableProofs!Submit, Reliable!Transmit, ReliableProofs!Transmit,
     Reliable!Retransmit, ReliableProofs!Retransmit, Reliable!Arrive,
     ReliableProofs!Arrive, Reliable!Deliver, ReliableProofs!Deliver, Reliable!Lose,
     ReliableProofs!Lose, Reliable!Take, ReliableProofs!Take, Reliable!Skip,
     ReliableProofs!Skip
<1>3. ReliableProofs!ChSpec => []ReliableProofs!SentOnce
  BY ReliableProofs!AlwaysSentOnce
<1>4. ReliableProofs!ChSpec => []ReliableProofs!ReceivedOnce
  BY FrameSizeAssumption, ReliableProofs!AlwaysReceivedOnce
<1>5. /\ ReliableProofs!SentOnce => Reliable!SentOnce
      /\ ReliableProofs!ReceivedOnce => Reliable!ReceivedOnce
  BY DEF Reliable!SentOnce, ReliableProofs!SentOnce,
         Reliable!ReceivedOnce, ReliableProofs!ReceivedOnce
<1>6. Spec => Reliable!ChSpec
  BY ImplementsReliableChannel DEF ReliableChannel
<1> QED
  BY <1>1, <1>2, <1>3, <1>4, <1>5, <1>6, PTL DEF Reliable!ChSpec, ReliableProofs!ChSpec
=============================================================================
