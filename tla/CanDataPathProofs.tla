-------------------------- MODULE CanDataPathProofs --------------------------
(***************************************************************************)
(* Theorems about the data path of both types of sockets, for any sizes of *)
(* frames, chunks, messages, blocks, limits and writes.                    *)
(***************************************************************************)
EXTENDS CanDataPath, SequenceTheorems, TLAPS

(* Contiguous pieces, with what follows of them by induction: they are in  *)
(* order.  That is kept as a part of the invariant, since what holds of    *)
(* all pairs of pieces is preserved by a step as easily as what holds of   *)
(* neighbours.                                                             *)
Sorted(pieces) ==
    \A i, j \in 1 .. Len(pieces) : i < j => pieces[i].to < pieces[j].from

Chain(pieces, first, last) ==
    pieces \in Seq(Interval) /\ Contiguous(pieces, first, last) /\ Sorted(pieces)

-----------------------------------------------------------------------------
(* Arithmetic *)

LEMMA Multiples ==
    ASSUME NEW a \in Nat, NEW b \in Nat, NEW c \in Nat
    PROVE  /\ a * c \in Nat
           /\ (a + b) * c = a * c + b * c
           /\ a <= b => a * c <= b * c
<1>1. a * c \in Nat /\ (a + b) * c = a * c + b * c
  OBVIOUS
<1>2. ASSUME a <= b PROVE a * c <= b * c
  <2>1. (b - a) * c \in Nat /\ (b - a) * c = b * c - a * c
    BY <1>2
  <2> QED
    BY <1>1, <2>1
<1> QED
  BY <1>1, <1>2

LEMMA WholeOnes ==
    ASSUME NEW n \in Nat, NEW c \in Nat \ {0}, NEW k \in 0 .. n \div c
    PROVE  n \div c \in Nat /\ k * c <= n
<1>1. n \div c \in Nat /\ (n \div c) * c <= n
  OBVIOUS
<1>2. k * c <= (n \div c) * c
  BY <1>1, Multiples
<1> QED
  BY <1>1, <1>2

-----------------------------------------------------------------------------
(* Chains *)

LEMMA PiecesAreNumbers ==
    ASSUME NEW p \in Seq(Interval), NEW i \in 1 .. Len(p)
    PROVE  p[i] \in Interval /\ p[i].from \in Nat \ {0} /\ p[i].to \in Nat
<1>1. p[i] \in Interval
  BY ElementOfSeq
<1> QED
  BY <1>1 DEF Interval

(* What the pieces of a chain have to do with its ends *)
LEMMA ChainPieces ==
    ASSUME NEW p, NEW a \in Nat \ {0}, NEW b \in Nat, Chain(p, a, b)
    PROVE  /\ Len(p) \in Nat
           /\ p = <<>> <=> Len(p) = 0
           /\ \A i \in 1 .. Len(p) :
                 /\ p[i].from \in Nat \ {0} /\ p[i].to \in Nat
                 /\ a <= p[i].from /\ p[i].from <= p[i].to /\ p[i].to <= b
           /\ Len(p) = 0 => a = b + 1
           /\ Len(p) > 0 => p[1].from = a /\ p[Len(p)].to = b /\ a <= b
<1>1. p \in Seq(Interval) /\ Len(p) \in Nat /\ (p = <<>> <=> Len(p) = 0)
  BY EmptySeq DEF Chain
<1>2. \A i \in 1 .. Len(p) : p[i].from \in Nat \ {0} /\ p[i].to \in Nat
  BY <1>1, PiecesAreNumbers
<1>3. CASE Len(p) = 0
  BY <1>1, <1>3 DEF Chain, Contiguous
<1>4. CASE Len(p) > 0
  <2>1. p # <<>>
    BY <1>1, <1>4
  <2>2. /\ p[1].from = a /\ p[Len(p)].to = b
        /\ \A i \in 1 .. Len(p) : p[i].from <= p[i].to
        /\ \A i, j \in 1 .. Len(p) : i < j => p[i].to < p[j].from
    BY <2>1 DEF Chain, Contiguous, Sorted
  <2>3. 1 \in 1 .. Len(p) /\ Len(p) \in 1 .. Len(p)
    BY <1>1, <1>4
  <2>4. ASSUME NEW i \in 1 .. Len(p) PROVE a <= p[i].from /\ p[i].to <= b
    <3>1. a <= p[i].from
      <4>1. CASE i = 1
        BY <1>2, <2>2, <4>1
      <4>2. CASE 1 < i
        <5>1. p[1].to < p[i].from /\ p[1].from <= p[1].to
          BY <2>2, <2>3, <4>2
        <5> QED
          BY <1>2, <2>2, <2>3, <5>1
      <4> QED
        BY <4>1, <4>2
    <3>2. p[i].to <= b
      <4>1. CASE i = Len(p)
        BY <1>2, <2>2, <2>3, <4>1
      <4>2. CASE i < Len(p)
        <5>1. p[i].to < p[Len(p)].from /\ p[Len(p)].from <= p[Len(p)].to
          BY <2>2, <2>3, <4>2
        <5> QED
          BY <1>2, <2>2, <2>3, <5>1
      <4> QED
        BY <1>1, <4>1, <4>2
    <3> QED
      BY <3>1, <3>2
  <2>5. a <= b
    BY <1>2, <2>2, <2>3, <2>4
  <2> QED
    BY <1>1, <1>2, <1>4, <2>2, <2>4, <2>5
<1> QED
  BY <1>1, <1>3, <1>4

(* How a chain is recognised *)
Linked(p, a, b) ==
    /\ Len(p) = 0 => a = b + 1
    /\ Len(p) > 0 => p[1].from = a /\ p[Len(p)].to = b
    /\ \A i \in 1 .. Len(p) : p[i].from <= p[i].to
    /\ \A i \in 1 .. Len(p) - 1 : p[i + 1].from = p[i].to + 1
    /\ \A i, j \in 1 .. Len(p) : i < j => p[i].to < p[j].from

LEMMA IsChain ==
    ASSUME NEW p \in Seq(Interval), NEW a, NEW b, Linked(p, a, b)
    PROVE  Chain(p, a, b)
<1>1. Len(p) \in Nat /\ (p = <<>> <=> Len(p) = 0)
  BY EmptySeq
<1>2. Sorted(p)
  BY DEF Linked, Sorted
<1>3. CASE Len(p) = 0
  BY <1>1, <1>2, <1>3 DEF Linked, Chain, Contiguous
<1>4. CASE Len(p) > 0
  <2>1. p # <<>>
    BY <1>1, <1>4
  <2> QED
    BY <1>2, <1>4, <2>1 DEF Linked, Chain, Contiguous
<1> QED
  BY <1>1, <1>3, <1>4

LEMMA ChainLinks ==
    ASSUME NEW p, NEW a \in Nat \ {0}, NEW b \in Nat, Chain(p, a, b)
    PROVE  /\ \A i \in 1 .. Len(p) - 1 : p[i + 1].from = p[i].to + 1
           /\ \A i, j \in 1 .. Len(p) : i < j => p[i].to < p[j].from
<1>1. Len(p) \in Nat /\ (p = <<>> <=> Len(p) = 0)
  BY EmptySeq DEF Chain
<1>2. \A i, j \in 1 .. Len(p) : i < j => p[i].to < p[j].from
  BY DEF Chain, Sorted
<1>3. CASE p = <<>>
  BY <1>1, <1>2, <1>3
<1>4. CASE p # <<>>
  BY <1>2, <1>4 DEF Chain, Contiguous
<1> QED
  BY <1>3, <1>4

(* Two chains that meet *)
LEMMA ChainJoin ==
    ASSUME NEW p, NEW q, NEW r \in Seq(Interval),
           NEW a \in Nat \ {0}, NEW b \in Nat, NEW c \in Nat,
           Chain(p, a, b), Chain(q, b + 1, c), Len(r) = Len(p) + Len(q),
           \A i \in 1 .. Len(p) : r[i] = p[i],
           \A i \in 1 .. Len(q) : r[i + Len(p)] = q[i]
    PROVE  Chain(r, a, c)
<1> DEFINE np == Len(p)
           nq == Len(q)
           nr == Len(r)
<1>3. /\ np \in Nat /\ nq \in Nat /\ nr = np + nq
      /\ \A i \in 1 .. np : r[i] = p[i]
  BY DEF Chain
<1>2. ASSUME NEW i \in np + 1 .. nr PROVE i - np \in 1 .. nq /\ r[i] = q[i - np]
  <2>1. i - np \in 1 .. nq /\ (i - np) + np = i
    BY <1>3
  <2> QED
    BY <2>1
<1>4. /\ \A i \in 1 .. np : /\ p[i].from \in Nat /\ p[i].to \in Nat
                             /\ a <= p[i].from /\ p[i].from <= p[i].to /\ p[i].to <= b
      /\ np = 0 => a = b + 1
      /\ np > 0 => p[1].from = a /\ p[np].to = b
      /\ \A i \in 1 .. np - 1 : p[i + 1].from = p[i].to + 1
      /\ \A i, j \in 1 .. np : i < j => p[i].to < p[j].from
  BY ChainPieces, ChainLinks
<1>5. /\ \A i \in 1 .. nq : /\ q[i].from \in Nat /\ q[i].to \in Nat
                             /\ b + 1 <= q[i].from /\ q[i].from <= q[i].to /\ q[i].to <= c
      /\ nq = 0 => b = c
      /\ nq > 0 => q[1].from = b + 1 /\ q[nq].to = c
      /\ \A i \in 1 .. nq - 1 : q[i + 1].from = q[i].to + 1
      /\ \A i, j \in 1 .. nq : i < j => q[i].to < q[j].from
  <2>1. b + 1 \in Nat \ {0}
    OBVIOUS
  <2> QED
    BY <2>1, ChainPieces, ChainLinks
<1> HIDE DEF np, nq, nr
<1>6. nr = 0 => a = c + 1
  BY <1>3, <1>4, <1>5
<1>7. ASSUME nr > 0 PROVE r[1].from = a /\ r[nr].to = c
  <2>1. r[1].from = a
    <3>1. CASE np = 0
      <4>1. nq > 0 /\ 1 \in np + 1 .. nr /\ 1 - np = 1
        BY <1>3, <1>7, <3>1
      <4> QED
        BY <1>2, <1>4, <1>5, <3>1, <4>1
    <3>2. CASE np > 0
      BY <1>3, <1>4, <3>2
    <3> QED
      BY <1>3, <3>1, <3>2
  <2>2. r[nr].to = c
    <3>1. CASE nq = 0
      BY <1>3, <1>4, <1>5, <1>7, <3>1
    <3>2. CASE nq > 0
      <4>1. nr \in np + 1 .. nr /\ nr - np = nq
        BY <1>3, <3>2
      <4> QED
        BY <1>2, <1>5, <3>2, <4>1
    <3> QED
      BY <1>3, <3>1, <3>2
  <2> QED
    BY <2>1, <2>2
<1>8. ASSUME NEW i \in 1 .. nr PROVE r[i].from <= r[i].to
  <2>1. i \in 1 .. np \/ i \in np + 1 .. nr
    BY <1>3
  <2> QED
    BY <1>2, <1>3, <1>4, <1>5, <2>1
<1>9. ASSUME NEW i \in 1 .. nr - 1 PROVE r[i + 1].from = r[i].to + 1
  <2>1. CASE i < np
    <3>1. i \in 1 .. np - 1 /\ i \in 1 .. np /\ i + 1 \in 1 .. np
      BY <1>3, <2>1
    <3> QED
      BY <1>3, <1>4, <3>1
  <2>2. CASE i = np
    <3>1. /\ i \in 1 .. np /\ nq > 0 /\ np > 0
          /\ i + 1 \in np + 1 .. nr /\ (i + 1) - np = 1
      BY <1>3, <2>2
    <3>2. r[i] = p[np] /\ r[i + 1] = q[1]
      BY <1>2, <1>3, <2>2, <3>1
    <3> QED
      BY <1>4, <1>5, <3>1, <3>2
  <2>3. CASE i > np
    <3>1. i \in np + 1 .. nr /\ i + 1 \in np + 1 .. nr
      BY <1>3, <2>3
    <3>2. i - np \in 1 .. nq - 1 /\ (i + 1) - np = (i - np) + 1
      BY <1>3, <2>3
    <3>3. r[i] = q[i - np]
      BY <1>2, <3>1
    <3>4. r[i + 1] = q[(i - np) + 1]
      BY <1>2, <3>1, <3>2
    <3> QED
      BY <1>5, <3>2, <3>3, <3>4
  <2> QED
    BY <1>3, <2>1, <2>2, <2>3
<1>10. ASSUME NEW i \in 1 .. nr, NEW j \in 1 .. nr, i < j PROVE r[i].to < r[j].from
  <2>1. CASE j <= np
    BY <1>3, <1>4, <1>10, <2>1, SMTT(30)
  <2>2. CASE i <= np /\ j > np
    <3>1. i \in 1 .. np /\ j \in np + 1 .. nr
      BY <1>3, <2>2
    <3>2. r[i] = p[i] /\ r[j] = q[j - np] /\ j - np \in 1 .. nq
      BY <1>2, <1>3, <3>1
    <3> QED
      BY <1>4, <1>5, <3>1, <3>2
  <2>3. CASE i > np
    <3>1. i \in np + 1 .. nr /\ j \in np + 1 .. nr /\ i - np < j - np
      BY <1>3, <1>10, <2>3
    <3>2. r[i] = q[i - np] /\ r[j] = q[j - np] /\ i - np \in 1 .. nq /\ j - np \in 1 .. nq
      BY <1>2, <3>1
    <3> QED
      BY <1>5, <3>1, <3>2
  <2> QED
    BY <1>3, <2>1, <2>2, <2>3
<1>11. Linked(r, a, c)
  BY <1>6, <1>7, <1>8, <1>9, <1>10 DEF Linked, nr
<1> QED
  BY <1>11, IsChain

LEMMA ChainConcat ==
    ASSUME NEW p, NEW q, NEW a \in Nat \ {0}, NEW b \in Nat, NEW c \in Nat,
           Chain(p, a, b), Chain(q, b + 1, c)
    PROVE  Chain(p \o q, a, c)
<1> DEFINE r == p \o q
<1>1. p \in Seq(Interval) /\ q \in Seq(Interval) /\ Len(p) \in Nat /\ Len(q) \in Nat
  BY DEF Chain
<1>2. /\ r \in Seq(Interval) /\ Len(r) = Len(p) + Len(q)
      /\ \A i \in 1 .. Len(p) : r[i] = p[i]
      /\ \A i \in 1 .. Len(q) : r[i + Len(p)] = q[i]
  BY <1>1, ConcatProperties
<1> HIDE DEF r
<1>3. Chain(r, a, c)
  BY <1>2, ChainJoin
<1> QED
  BY <1>3 DEF r

(* One piece *)
LEMMA ChainOfOne ==
    ASSUME NEW s \in Interval, s.from <= s.to
    PROVE  Chain(<<s>>, s.from, s.to)
<1> DEFINE p == <<s>>
<1>1. s.from \in Nat \ {0} /\ s.to \in Nat
  BY DEF Interval
<1>2. p \in Seq(Interval) /\ Len(p) = 1 /\ p[1] = s
  OBVIOUS
<1> HIDE DEF p
<1>3. /\ \A i \in 1 .. Len(p) : i = 1
      /\ \A i \in 1 .. Len(p) - 1 : FALSE
  BY <1>2
<1>4. Chain(p, s.from, s.to)
  <2>1. /\ \A i \in 1 .. Len(p) : p[i].from <= p[i].to
        /\ \A i \in 1 .. Len(p) - 1 : p[i + 1].from = p[i].to + 1
        /\ \A i, j \in 1 .. Len(p) : i < j => p[i].to < p[j].from
    BY <1>2, <1>3
  <2>2. /\ Len(p) = 0 => s.from = s.to + 1
        /\ Len(p) > 0 => p[1].from = s.from /\ p[Len(p)].to = s.to
    BY <1>2
  <2>3. Linked(p, s.from, s.to)
    BY <1>1, <1>2, <2>1, <2>2 DEF Linked
  <2> QED
    BY <1>2, <2>3, IsChain
<1> QED
  BY <1>4 DEF p

LEMMA ChainAppend ==
    ASSUME NEW p, NEW a \in Nat \ {0}, NEW b \in Nat, NEW c \in Nat, Chain(p, a, b), b + 1 <= c
    PROVE  Chain(Append(p, Span(b + 1, c)), a, c)
<1>1. Chain(<<Span(b + 1, c)>>, b + 1, c)
  <2>1. Span(b + 1, c) \in Interval /\ Span(b + 1, c).from = b + 1 /\ Span(b + 1, c).to = c
    BY DEF Span, Interval
  <2> QED
    BY <2>1, ChainOfOne
<1>2. Append(p, Span(b + 1, c)) = p \o <<Span(b + 1, c)>>
  <2>1. p \in Seq(Interval) /\ Span(b + 1, c) \in Interval
    BY DEF Chain, Span, Interval
  <2> QED
    BY <2>1, AppendIsConcat
<1>3. Chain(p \o <<Span(b + 1, c)>>, a, c)
  BY <1>1, ChainConcat
<1> QED
  BY <1>2, <1>3

(* A chain without its first n pieces *)
LEMMA ChainWithout ==
    ASSUME NEW p, NEW q \in Seq(Interval), NEW a \in Nat \ {0}, NEW b \in Nat, Chain(p, a, b),
           NEW n \in 0 .. Len(p), Len(q) = Len(p) - n,
           \A i \in 1 .. Len(q) : q[i] = p[i + n]
    PROVE  /\ n = 0 => Chain(q, a, b)
           /\ n > 0 => Chain(q, p[n].to + 1, b)
<1> DEFINE np == Len(p)
           nq == Len(q)
<1>1. p \in Seq(Interval) /\ np \in Nat /\ nq = np - n /\ n \in 0 .. np
  BY DEF Chain
<1>2. \A i \in 1 .. nq : i + n \in 1 .. np /\ q[i] = p[i + n]
  BY <1>1
<1>3. /\ \A i \in 1 .. np : /\ p[i].from \in Nat /\ p[i].to \in Nat
                             /\ a <= p[i].from /\ p[i].from <= p[i].to /\ p[i].to <= b
      /\ np = 0 => a = b + 1
      /\ np > 0 => p[1].from = a /\ p[np].to = b
      /\ \A i \in 1 .. np - 1 : p[i + 1].from = p[i].to + 1
      /\ \A i, j \in 1 .. np : i < j => p[i].to < p[j].from
  BY ChainPieces, ChainLinks
<1> DEFINE f == IF n = 0 THEN a ELSE p[n].to + 1
<1> HIDE DEF np, nq
<1>4. f \in Nat \ {0} /\ (n = 0 => f = a) /\ (n > 0 => f = p[n].to + 1)
  <2>1. n > 0 => n \in 1 .. np
    BY <1>1
  <2> QED
    BY <1>3, <2>1
<1> HIDE DEF f
<1>5. nq = 0 => f = b + 1
  BY <1>1, <1>3, <1>4
<1>6. ASSUME nq > 0 PROVE q[1].from = f /\ q[nq].to = b
  <2>0. /\ 1 \in 1 .. nq /\ nq \in 1 .. nq /\ nq + n = np /\ np > 0
        /\ 1 + n \in 1 .. np
    BY <1>1, <1>6
  <2>1. q[1] = p[1 + n] /\ q[nq] = p[np] /\ np > 0
    BY <1>2, <2>0
  <2>2. p[1 + n].from = f
    <3>1. CASE n = 0
      BY <1>3, <1>4, <2>0, <3>1
    <3>2. CASE n > 0
      <4>1. n \in 1 .. np - 1 /\ n + 1 = 1 + n
        BY <1>1, <1>6, <3>2
      <4> QED
        BY <1>3, <1>4, <3>2, <4>1
    <3> QED
      BY <1>1, <3>1, <3>2
  <2> QED
    BY <1>3, <2>1, <2>2
<1>7. \A i \in 1 .. nq : q[i].from <= q[i].to
  BY <1>2, <1>3
<1>8. ASSUME NEW i \in 1 .. nq - 1 PROVE q[i + 1].from = q[i].to + 1
  <2>1. q[i] = p[i + n] /\ q[i + 1] = p[(i + n) + 1] /\ i + n \in 1 .. np - 1
    <3>1. i \in 1 .. nq /\ i + 1 \in 1 .. nq /\ (i + 1) + n = (i + n) + 1
      BY <1>1
    <3> QED
      BY <1>1, <1>2, <3>1
  <2> QED
    BY <1>3, <2>1
<1>9. ASSUME NEW i \in 1 .. nq, NEW j \in 1 .. nq, i < j PROVE q[i].to < q[j].from
  <2>1. i + n < j + n
    BY <1>1, <1>9
  <2> QED
    BY <1>2, <1>3, <2>1
<1>10. Chain(q, f, b)
  <2>1. Linked(q, f, b)
    BY <1>4, <1>5, <1>6, <1>7, <1>8, <1>9 DEF Linked, nq
  <2> QED
    BY <2>1, IsChain
<1> QED
  BY <1>4, <1>10

(* The last piece grows *)
LEMMA ChainGrows ==
    ASSUME NEW p, NEW a \in Nat \ {0}, NEW b \in Nat, NEW c \in Nat, Chain(p, a, b), b <= c,
           p # <<>>
    PROVE  Chain([p EXCEPT ![Len(p)] = Span(@.from, c)], a, c)
<1> DEFINE n == Len(p)
           q == [p EXCEPT ![Len(p)] = Span(@.from, c)]
<1>1. p \in Seq(Interval) /\ n \in Nat /\ n > 0
  BY ChainPieces DEF Chain
<1>2. /\ \A i \in 1 .. n : /\ p[i].from \in Nat \ {0} /\ p[i].to \in Nat
                            /\ a <= p[i].from /\ p[i].from <= p[i].to /\ p[i].to <= b
      /\ n > 0 => p[1].from = a /\ p[n].to = b
      /\ \A i \in 1 .. n - 1 : p[i + 1].from = p[i].to + 1
      /\ \A i, j \in 1 .. n : i < j => p[i].to < p[j].from
  BY ChainPieces, ChainLinks
<1>3. Span(p[n].from, c) \in Interval
  BY <1>1, <1>2 DEF Span, Interval
<1>4. /\ q \in Seq(Interval) /\ Len(q) = n
      /\ \A i \in 1 .. n - 1 : q[i] = p[i]
      /\ q[n] = Span(p[n].from, c)
  BY <1>1, <1>3
<1>5. q[n].from = p[n].from /\ q[n].to = c
  BY <1>4 DEF Span
<1> HIDE DEF q, n
<1>6. \A i \in 1 .. n : q[i].from = p[i].from
  BY <1>1, <1>4, <1>5
<1>7. q[1].from = a
  BY <1>1, <1>2, <1>6
<1>8. \A i \in 1 .. n : q[i].from <= q[i].to
  <2>1. p[n].from <= c
    BY <1>1, <1>2
  <2> QED
    BY <1>1, <1>2, <1>4, <1>5, <2>1
<1>9. ASSUME NEW i \in 1 .. n - 1 PROVE q[i + 1].from = q[i].to + 1
  <2>1. i + 1 \in 2 .. n /\ i + 1 \in 1 .. n /\ i \in 1 .. n
    BY <1>1
  <2> QED
    BY <1>2, <1>4, <1>6, <2>1
<1>10. ASSUME NEW i \in 1 .. n, NEW j \in 1 .. n, i < j PROVE q[i].to < q[j].from
  <2>1. i \in 1 .. n - 1 /\ j \in 2 .. n
    BY <1>1, <1>10
  <2> QED
    BY <1>2, <1>4, <1>6, <1>10, <2>1
<1>11. Chain(q, a, c)
  <2>1. Linked(q, a, c)
    BY <1>1, <1>4, <1>5, <1>7, <1>8, <1>9, <1>10 DEF Linked
  <2> QED
    BY <1>4, <2>1, IsChain
<1> QED
  BY <1>11 DEF q

(* The first piece loses its first n bytes *)
LEMMA ChainShrinks ==
    ASSUME NEW p, NEW a \in Nat \ {0}, NEW b \in Nat, Chain(p, a, b), p # <<>>,
           NEW n \in Nat, n < Size(p[1])
    PROVE  Chain([p EXCEPT ![1] = Span(@.from + n, @.to)], a + n, b)
<1> DEFINE m == Len(p)
           q == [p EXCEPT ![1] = Span(@.from + n, @.to)]
<1>1. p \in Seq(Interval) /\ m \in Nat /\ m > 0
  BY ChainPieces DEF Chain
<1>2. /\ \A i \in 1 .. m : /\ p[i].from \in Nat \ {0} /\ p[i].to \in Nat
                            /\ a <= p[i].from /\ p[i].from <= p[i].to /\ p[i].to <= b
      /\ p[1].from = a /\ p[m].to = b
      /\ \A i \in 1 .. m - 1 : p[i + 1].from = p[i].to + 1
      /\ \A i, j \in 1 .. m : i < j => p[i].to < p[j].from
  BY <1>1, ChainPieces, ChainLinks
<1>3. Span(p[1].from + n, p[1].to) \in Interval
  BY <1>1, <1>2 DEF Span, Interval
<1>4. /\ q \in Seq(Interval) /\ Len(q) = m
      /\ \A i \in 2 .. m : q[i] = p[i]
      /\ q[1] = Span(p[1].from + n, p[1].to)
  BY <1>1, <1>3
<1>5. q[1].from = a + n /\ q[1].to = p[1].to /\ q[1].from <= q[1].to
  BY <1>1, <1>2, <1>4 DEF Span, Size
<1> HIDE DEF q, m
<1>6. \A i \in 1 .. m : q[i].to = p[i].to
  BY <1>1, <1>4, <1>5
<1>7. q[m].to = b
  BY <1>1, <1>2, <1>6
<1>8. \A i \in 1 .. m : q[i].from <= q[i].to
  BY <1>1, <1>2, <1>4, <1>5, SMTT(30)
<1>9. ASSUME NEW i \in 1 .. m - 1 PROVE q[i + 1].from = q[i].to + 1
  <2>1. i + 1 \in 2 .. m /\ i + 1 \in 1 .. m /\ i \in 1 .. m
    BY <1>1
  <2> QED
    BY <1>2, <1>4, <1>6, <2>1
<1>10. ASSUME NEW i \in 1 .. m, NEW j \in 1 .. m, i < j PROVE q[i].to < q[j].from
  <2>1. i \in 1 .. m - 1 /\ j \in 2 .. m
    BY <1>1, <1>10
  <2> QED
    BY <1>2, <1>4, <1>6, <1>10, <2>1
<1>11. Chain(q, a + n, b)
  <2>1. Linked(q, a + n, b)
    BY <1>1, <1>4, <1>5, <1>7, <1>8, <1>9, <1>10 DEF Linked
  <2> QED
    BY <1>4, <2>1, IsChain
<1> QED
  BY <1>11 DEF q

-----------------------------------------------------------------------------
(* The invariant.  What the kernel has begins behind what was taken from   *)
(* it, what waits in the write buffer behind what is on the wire; frames   *)
(* keep to their size, and no block of an ISO-TP socket begins or ends     *)
(* within a write.                                                         *)
TakenOf(queue, last) == IF queue = <<>> THEN last ELSE queue[1].from - 1
LastOf(pieces)       == IF pieces = <<>> THEN 0 ELSE pieces[Len(pieces)].to
Taken == TakenOf(rxQueue, arrived)

Increasing(data) == \A i, j \in 1 .. Len(data) : i < j => data[i] < data[j]
Elements(data)   == {data[i] : i \in 1 .. Len(data)}
Delivered == got \o buffer

Queue ==
    /\ Taken \in Nat /\ Chain(rxQueue, Taken + 1, arrived)
    /\ type = "raw" => \A i \in 1 .. Len(rxQueue) : rxQueue[i].to = Taken + i * FrameSize
    /\ type = "isotp" => \A i \in 1 .. Len(rxQueue) : Size(rxQueue[i]) <= MaxMessage

Reading ==
    /\ Increasing(Delivered) /\ lost \subseteq 1 .. Taken
    /\ Elements(Delivered) = (1 .. Taken) \ lost

Sending ==
    /\ OnWire \in Nat /\ Chain(wire, 1, OnWire) /\ Chain(blocks, OnWire + 1, written)
    /\ type = "raw" => \A i \in 1 .. Len(wire) : wire[i].to = i * FrameSize

Whole ==
    type = "isotp" =>
        /\ \A i \in 1 .. Len(wire) : wire[i].to \in ends
        /\ \A i \in 1 .. Len(blocks) : blocks[i].to \in ends
        /\ \A n \in starts : \/ \E i \in 1 .. Len(wire) : wire[i].from = n
                             \/ \E i \in 1 .. Len(blocks) : blocks[i].from = n

DInv == TypeOK /\ Queue /\ Reading /\ Sending /\ Whole

LEMMA TakenIs ==
    ASSUME NEW p, NEW x \in Nat, NEW b \in Nat, Chain(p, x + 1, b)
    PROVE  TakenOf(p, b) = x
<1>1. x + 1 \in Nat \ {0}
  OBVIOUS
<1>2. /\ Len(p) \in Nat /\ (p = <<>> <=> Len(p) = 0)
      /\ Len(p) = 0 => x + 1 = b + 1
      /\ Len(p) > 0 => p[1].from = x + 1
  BY <1>1, ChainPieces
<1> QED
  BY <1>2 DEF TakenOf

LEMMA LastIs ==
    ASSUME NEW p, NEW b \in Nat, Chain(p, 1, b)
    PROVE  LastOf(p) = b
<1>1. /\ Len(p) \in Nat /\ (p = <<>> <=> Len(p) = 0)
      /\ Len(p) = 0 => 1 = b + 1
      /\ Len(p) > 0 => p[Len(p)].to = b
  <2>1. 1 \in Nat \ {0}
    OBVIOUS
  <2> QED
    BY <2>1, ChainPieces
<1> QED
  BY <1>1 DEF LastOf

LEMMA InitDInv == Init => DInv
<1> SUFFICES ASSUME Init PROVE DInv
  OBVIOUS
<1>1. /\ rxQueue = <<>> /\ buffer = <<>> /\ got = <<>> /\ blocks = <<>> /\ wire = <<>>
      /\ arrived = 0 /\ written = 0 /\ lost = {} /\ ends = {} /\ starts = {}
  BY DEF Init
<1>2. \A S : <<>> \in Seq(S)
  BY EmptySeq
<1>3. TypeOK
  <2>1. /\ readEnabled \in BOOLEAN /\ writeEnabled \in BOOLEAN
        /\ emittedBytesWritten \in BOOLEAN /\ busy \in BOOLEAN
    BY Zenon DEF Init
  <2>2. type \in Types /\ readBufferMaxSize = 0 /\ tail = 0 /\ pendingBytesWritten = 0
    BY DEF Init
  <2> QED
    BY <1>1, <1>2, <2>1, <2>2 DEF TypeOK
<1>4. OnWire = 0 /\ Taken = 0
  BY <1>1 DEF OnWire, Taken, TakenOf
<1>5. Chain(<<>>, 1, 0)
  BY <1>2 DEF Chain, Contiguous, Sorted
<1>6. Queue /\ Sending /\ Whole
  BY <1>1, <1>4, <1>5 DEF Queue, Sending, Whole
<1>7. Len(Delivered) = 0
  <2>1. <<>> \o <<>> = <<>>
    BY <1>2, ConcatEmptySeq
  <2> QED
    BY <1>1, <2>1 DEF Delivered
<1>8. Reading
  BY <1>1, <1>4, <1>7 DEF Reading, Increasing, Elements
<1> QED
  BY <1>3, <1>6, <1>8 DEF DInv

-----------------------------------------------------------------------------
(* Reading *)

(* What is taken with the first u units *)
After(u) == IF u = 0 THEN Taken ELSE rxQueue[u].to

LEMMA RawReadTakes ==
    ASSUME TypeOK, Queue, rxQueue # <<>>, type = "raw", NEW room \in Int
    PROVE  /\ RawRead(room).units \in 0 .. Len(rxQueue)
           /\ RawRead(room).bytes = RawRead(room).units * FrameSize
           /\ RawRead(room).bytes \in Nat
           /\ RawRead(room).cut = {}
           /\ After(RawRead(room).units) = Taken + RawRead(room).bytes
<1> DEFINE fit == IF room < FrameSize THEN 0 ELSE room \div FrameSize
           n   == Lesser(fit, Len(rxQueue))
<1>1. FrameSize \in Nat \ {0} /\ Len(rxQueue) \in Nat /\ Taken \in Nat
  BY DataPathAssumption DEF TypeOK, Queue
<1>2. fit \in Nat
  BY <1>1
<1> HIDE DEF fit
<1>3. n \in 0 .. Len(rxQueue)
  BY <1>1, <1>2 DEF Lesser
<1>4. RawRead(room) = [units |-> n, bytes |-> n * FrameSize, cut |-> {}]
  BY DEF RawRead, fit
<1> HIDE DEF n
<1>5. n * FrameSize \in Nat
  BY <1>1, <1>3, Multiples
<1>6. After(n) = Taken + n * FrameSize
  <2>1. CASE n = 0
    BY <1>1, <2>1 DEF After
  <2>2. CASE n # 0
    <3>1. n \in 1 .. Len(rxQueue)
      BY <1>1, <1>3, <2>2
    <3> QED
      BY <2>2, <3>1 DEF After, Queue
  <2> QED
    BY <2>1, <2>2
<1> QED
  BY <1>3, <1>4, <1>5, <1>6

LEMMA IsoTpReadTakes ==
    ASSUME TypeOK, Queue, rxQueue # <<>>, type = "isotp", NEW room \in Int
    PROVE  /\ IsoTpRead(room).units \in 0 .. 1 /\ IsoTpRead(room).bytes \in Nat
           /\ After(IsoTpRead(room).units) \in Nat
           /\ Taken + IsoTpRead(room).bytes <= After(IsoTpRead(room).units)
           /\ IsoTpRead(room).cut
                = Taken + IsoTpRead(room).bytes + 1 .. After(IsoTpRead(room).units)
           /\ room >= MaxMessage => IsoTpRead(room).cut = {}
<1>1. Taken \in Nat /\ Taken + 1 \in Nat \ {0} /\ arrived \in Nat
  BY DEF TypeOK, Queue
<1>2. Len(rxQueue) \in Nat /\ Len(rxQueue) > 0
  BY EmptySeq DEF TypeOK
<1>3. /\ rxQueue[1].from \in Nat /\ rxQueue[1].to \in Nat
      /\ rxQueue[1].from <= rxQueue[1].to /\ rxQueue[1].from = Taken + 1
  <2>1. 1 \in 1 .. Len(rxQueue) /\ Chain(rxQueue, Taken + 1, arrived)
    BY <1>2 DEF Queue
  <2> QED
    BY <1>1, <1>2, <2>1, ChainPieces
<1>4. Size(rxQueue[1]) <= MaxMessage
  BY <1>2 DEF Queue
<1>5. Head(rxQueue) = rxQueue[1]
  BY HeadTailProperties DEF TypeOK
<1> DEFINE message == rxQueue[1]
           n       == Lesser(Size(message), room)
<1>6. MaxMessage \in Nat
  BY DataPathAssumption
<1>7. CASE room < 0
  <2>1. IsoTpRead(room) = [units |-> 0, bytes |-> 0, cut |-> {}]
    BY <1>7 DEF IsoTpRead
  <2> QED
    BY <1>1, <1>6, <1>7, <2>1 DEF After
<1>8. CASE room >= 0
  <2>1. IsoTpRead(room) = [units |-> 1, bytes |-> n, cut |-> message.from + n .. message.to]
    BY <1>5, <1>8 DEF IsoTpRead
  <2>2. /\ n \in Nat /\ Taken + n <= message.to /\ message.from + n = Taken + n + 1
        /\ room >= MaxMessage => Taken + n = message.to
    BY <1>1, <1>3, <1>4, <1>6, <1>8 DEF Lesser, Size
  <2> HIDE DEF n
  <2>3. After(1) = message.to
    BY DEF After
  <2> QED
    BY <1>1, <1>3, <1>6, <2>1, <2>2, <2>3
<1> QED
  BY <1>7, <1>8

LEMMA ConcatElements ==
    ASSUME NEW S, NEW d \in Seq(S), NEW e \in Seq(S)
    PROVE  /\ d \o e \in Seq(S) /\ Len(d \o e) = Len(d) + Len(e)
           /\ \A i \in 1 .. Len(d) : (d \o e)[i] = d[i]
           /\ \A i \in 1 .. Len(e) : (d \o e)[i + Len(d)] = e[i]
<1>1. Len(d) \in Nat /\ Len(e) \in Nat
  OBVIOUS
<1> QED
  BY <1>1, ConcatProperties

(* The bytes a read appends to those delivered are the next ones *)
LEMMA DataConcat ==
    ASSUME NEW d \in Seq(Nat), NEW e \in Seq(Nat)
    PROVE  \A t, n \in Nat :
             /\ Increasing(d) /\ Elements(d) \subseteq 1 .. t
             /\ Len(e) = n /\ \A i \in 1 .. n : e[i] = t + i
             => /\ Increasing(d \o e)
                /\ Elements(d \o e) = Elements(d) \cup (t + 1 .. t + n)
<1> DEFINE r == d \o e
           m == Len(d)
<1>0. /\ r \in Seq(Nat) /\ Len(r) = Len(d) + Len(e)
      /\ \A i \in 1 .. Len(d) : r[i] = d[i]
      /\ \A i \in 1 .. Len(e) : r[i + Len(d)] = e[i]
  BY ConcatElements
<1> HIDE DEF r
<1> SUFFICES ASSUME NEW t \in Nat, NEW n \in Nat,
                    Increasing(d), Elements(d) \subseteq 1 .. t,
                    Len(e) = n, \A i \in 1 .. n : e[i] = t + i
             PROVE  Increasing(r) /\ Elements(r) = Elements(d) \cup (t + 1 .. t + n)
  BY DEF r
<1>1. m \in Nat /\ Len(r) = m + n
  BY <1>0
<1>2. \A i \in 1 .. m : r[i] = d[i] /\ d[i] \in Nat /\ d[i] <= t
  <2>1. SUFFICES ASSUME NEW i \in 1 .. m PROVE d[i] \in Nat /\ d[i] <= t
    BY <1>0
  <2>2. d[i] \in Elements(d)
    BY DEF Elements
  <2> QED
    BY <2>2
<1>3. ASSUME NEW i \in m + 1 .. m + n PROVE r[i] = t + (i - m)
  <2>1. i - m \in 1 .. n /\ (i - m) + m = i
    BY <1>1
  <2> QED
    BY <1>0, <2>1
<1> HIDE DEF m
<1>4. Increasing(r)
  <2> SUFFICES ASSUME NEW i \in 1 .. m + n, NEW j \in 1 .. m + n, i < j PROVE r[i] < r[j]
    BY <1>1 DEF Increasing
  <2>1. CASE j <= m
    <3>1. i \in 1 .. m /\ j \in 1 .. m
      BY <1>1, <2>1
    <3>2. d[i] < d[j]
      BY <3>1 DEF Increasing, m
    <3> QED
      BY <1>2, <3>1, <3>2
  <2>2. CASE i <= m /\ j > m
    <3>1. i \in 1 .. m /\ j \in m + 1 .. m + n /\ j - m > 0 /\ j - m \in Nat
      BY <1>1, <2>2
    <3>2. r[i] \in Nat /\ r[i] <= t
      BY <1>2, <3>1
    <3>3. r[j] = t + (j - m)
      BY <1>3, <3>1
    <3> QED
      BY <3>1, <3>2, <3>3
  <2>3. CASE i > m
    <3>1. i \in m + 1 .. m + n /\ j \in m + 1 .. m + n
      BY <1>1, <2>3
    <3> QED
      BY <1>1, <1>3, <3>1
  <2> QED
    BY <1>1, <2>1, <2>2, <2>3
<1>5. ASSUME NEW x \in Elements(r) PROVE x \in Elements(d) \cup (t + 1 .. t + n)
  <2>1. PICK i \in 1 .. m + n : x = r[i]
    BY <1>1 DEF Elements
  <2>2. CASE i <= m
    <3>1. i \in 1 .. m
      BY <1>1, <2>2
    <3> QED
      BY <1>2, <2>1, <3>1 DEF Elements, m
  <2>3. CASE i > m
    <3>1. i \in m + 1 .. m + n
      BY <1>1, <2>3
    <3> QED
      BY <1>1, <1>3, <2>1, <3>1
  <2> QED
    BY <1>1, <2>2, <2>3
<1>6. ASSUME NEW x \in Elements(d) PROVE x \in Elements(r)
  <2>1. PICK i \in 1 .. m : x = d[i]
    BY DEF Elements, m
  <2>2. i \in 1 .. Len(r) /\ r[i] = x
    BY <1>1, <1>2, <2>1
  <2> QED
    BY <2>2 DEF Elements
<1>7. ASSUME NEW x \in t + 1 .. t + n PROVE x \in Elements(r)
  <2>1. m + (x - t) \in m + 1 .. m + n /\ m + (x - t) \in 1 .. Len(r)
    BY <1>1
  <2>2. r[m + (x - t)] = x
    BY <1>1, <1>3, <2>1
  <2> QED
    BY <2>1, <2>2 DEF Elements
<1> QED
  BY <1>4, <1>5, <1>6, <1>7

LEMMA NumbersConcat ==
    ASSUME NEW a \in Seq(Nat), NEW b \in Seq(Nat), NEW c \in Seq(Nat)
    PROVE  b \o c \in Seq(Nat) /\ a \o (b \o c) = (a \o b) \o c
  BY ConcatAssociative, ConcatProperties, SMTT(60)

LEMMA BytesAre ==
    ASSUME NEW t \in Nat, NEW n \in Nat
    PROVE  /\ BytesFrom(t + 1, n) \in Seq(Nat) /\ Len(BytesFrom(t + 1, n)) = n
           /\ \A i \in 1 .. n : BytesFrom(t + 1, n)[i] = t + i
<1>1. \A i \in 1 .. n : (t + 1) + i - 1 = t + i /\ t + i \in Nat
  OBVIOUS
<1> QED
  BY <1>1 DEF BytesFrom

LEMMA CutOff ==
    ASSUME NEW t \in Nat, NEW n \in Nat, NEW u \in Nat, t + n <= u, NEW l \in SUBSET (1 .. t),
           NEW d, d = (1 .. t) \ l
    PROVE  /\ l \cup (t + n + 1 .. u) \subseteq 1 .. u
           /\ d \cup (t + 1 .. t + n) = (1 .. u) \ (l \cup (t + n + 1 .. u))
  OBVIOUS

(* What a read of n bytes behind the first t does when u are taken         *)
Delivers(g, f, t, n, u) ==
    \A l \in SUBSET (1 .. t) :
        Increasing(g \o f) /\ Elements(g \o f) = (1 .. t) \ l =>
            /\ f \o BytesFrom(t + 1, n) \in Seq(Nat)
            /\ Increasing(g \o (f \o BytesFrom(t + 1, n)))
            /\ l \cup (t + n + 1 .. u) \subseteq 1 .. u
            /\ Elements(g \o (f \o BytesFrom(t + 1, n)))
                 = (1 .. u) \ (l \cup (t + n + 1 .. u))

LEMMA Deliver ==
    ASSUME NEW g \in Seq(Nat), NEW f \in Seq(Nat)
    PROVE  \A t, n, u \in Nat : t + n <= u => Delivers(g, f, t, n, u)
<1> DEFINE d == g \o f
<1>1. /\ d \in Seq(Nat)
      /\ \A e \in Seq(Nat) : f \o e \in Seq(Nat) /\ g \o (f \o e) = d \o e
  BY NumbersConcat, ConcatProperties
<1>2. \A e \in Seq(Nat) : \A t, n \in Nat :
        /\ Increasing(d) /\ Elements(d) \subseteq 1 .. t
        /\ Len(e) = n /\ \A i \in 1 .. n : e[i] = t + i
        => /\ Increasing(d \o e)
           /\ Elements(d \o e) = Elements(d) \cup (t + 1 .. t + n)
  BY <1>1, DataConcat
<1> HIDE DEF d
<1> TAKE t, n, u \in Nat
<1>0. HAVE t + n <= u
<1> USE DEF Delivers
<1> TAKE l \in SUBSET (1 .. t)
<1>3. HAVE Increasing(g \o f) /\ Elements(g \o f) = (1 .. t) \ l
<1> DEFINE e == BytesFrom(t + 1, n)
<1>4. e \in Seq(Nat) /\ Len(e) = n /\ \A i \in 1 .. n : e[i] = t + i
  BY BytesAre
<1> HIDE DEF e
<1>5. Increasing(d) /\ Elements(d) = (1 .. t) \ l /\ Elements(d) \subseteq 1 .. t
  BY <1>3 DEF d
<1>6. Increasing(d \o e) /\ Elements(d \o e) = Elements(d) \cup (t + 1 .. t + n)
  <2>1. \A x, y \in Nat :
          /\ Increasing(d) /\ Elements(d) \subseteq 1 .. x
          /\ Len(e) = y /\ \A i \in 1 .. y : e[i] = x + i
          => /\ Increasing(d \o e)
             /\ Elements(d \o e) = Elements(d) \cup (x + 1 .. x + y)
    BY <1>2, <1>4, Zenon
  <2> QED
    BY <1>4, <1>5, <2>1
<1>7. f \o e \in Seq(Nat) /\ g \o (f \o e) = d \o e
  BY <1>1, <1>4
<1>8. /\ l \cup (t + n + 1 .. u) \subseteq 1 .. u
      /\ Elements(d) \cup (t + 1 .. t + n) = (1 .. u) \ (l \cup (t + n + 1 .. u))
  BY <1>0, <1>5, CutOff
<1>9. /\ f \o e \in Seq(Nat) /\ Increasing(g \o (f \o e))
      /\ l \cup (t + n + 1 .. u) \subseteq 1 .. u
      /\ Elements(g \o (f \o e)) = (1 .. u) \ (l \cup (t + n + 1 .. u))
  BY <1>6, <1>7, <1>8
<1> QED
  BY <1>9 DEF e

(* A step that appends to what is delivered *)
LEMMA ReadKeepsReading ==
    ASSUME TypeOK, Queue, Reading, NEW u \in 0 .. Len(rxQueue), NEW n \in Nat,
           rxQueue # <<>>, After(u) \in Nat, Taken + n <= After(u),
           got' = got, arrived' = arrived, type' = type,
           rxQueue' = Drop(rxQueue, u),
           buffer' = buffer \o BytesFrom(Head(rxQueue).from, n),
           lost' = lost \cup (Taken + n + 1 .. After(u)),
           type = "raw" => After(u) = Taken + u * FrameSize
    PROVE  Queue' /\ Reading' /\ rxQueue' \in Seq(Interval) /\ buffer' \in Seq(Nat)
           /\ lost' \in SUBSET Nat
<1> DEFINE t == Taken
           t2 == After(u)
<1>1. /\ t \in Nat /\ t + 1 \in Nat \ {0} /\ arrived \in Nat /\ t2 \in Nat /\ t <= t2
      /\ rxQueue \in Seq(Interval) /\ Len(rxQueue) \in Nat /\ Len(rxQueue) > 0
      /\ Chain(rxQueue, t + 1, arrived)
  BY EmptySeq DEF TypeOK, Queue
<1>2. /\ Len(rxQueue') = Len(rxQueue) - u /\ rxQueue' \in Seq(Interval)
      /\ \A i \in 1 .. Len(rxQueue') : rxQueue'[i] = rxQueue[i + u]
  <2>1. \A i \in u + 1 .. Len(rxQueue) : rxQueue[i] \in Interval
    BY <1>1, ElementOfSeq
  <2>2. /\ SubSeq(rxQueue, u + 1, Len(rxQueue)) \in Seq(Interval)
        /\ Len(SubSeq(rxQueue, u + 1, Len(rxQueue))) = Len(rxQueue) - u
        /\ \A i \in 1 .. Len(rxQueue) - u :
             SubSeq(rxQueue, u + 1, Len(rxQueue))[i] = rxQueue[i + u]
    BY <1>1, <2>1, SubSeqProperties
  <2> QED
    BY <2>2 DEF Drop
<1>3. Chain(rxQueue', t2 + 1, arrived)
  <2>1. /\ u = 0 => Chain(rxQueue', t + 1, arrived)
        /\ u > 0 => Chain(rxQueue', rxQueue[u].to + 1, arrived)
    BY <1>1, <1>2, ChainWithout
  <2> QED
    BY <2>1 DEF After
<1>4. Taken' = t2
  <2>1. TakenOf(rxQueue', arrived) = t2
    BY <1>1, <1>3, TakenIs
  <2> QED
    BY <2>1 DEF Taken
<1>5. ASSUME type = "raw", NEW i \in 1 .. Len(rxQueue')
      PROVE  rxQueue'[i].to = t2 + i * FrameSize
  <2>1. FrameSize \in Nat /\ i \in Nat /\ u \in Nat
    BY <1>1, <1>2, DataPathAssumption
  <2>2. i + u \in 1 .. Len(rxQueue) /\ rxQueue'[i] = rxQueue[i + u]
    BY <1>1, <1>2
  <2>3. rxQueue[i + u].to = t + (i + u) * FrameSize
    BY <1>5, <2>2 DEF Queue
  <2>4. (i + u) * FrameSize = i * FrameSize + u * FrameSize
        /\ i * FrameSize \in Nat /\ u * FrameSize \in Nat
    BY <2>1, Multiples
  <2>5. t2 = t + u * FrameSize
    BY <1>5
  <2> QED
    BY <1>1, <2>2, <2>3, <2>4, <2>5
<1>6. ASSUME type = "isotp", NEW i \in 1 .. Len(rxQueue') PROVE Size(rxQueue'[i]) <= MaxMessage
  <2>1. i + u \in 1 .. Len(rxQueue) /\ rxQueue'[i] = rxQueue[i + u]
    BY <1>1, <1>2
  <2> QED
    BY <1>6, <2>1 DEF Queue
<1>7. Queue'
  BY <1>1, <1>3, <1>4, <1>5, <1>6 DEF Queue
<1>8. Head(rxQueue).from = t + 1
  BY <1>1, ChainPieces, HeadTailProperties
<1>9. /\ got \in Seq(Nat) /\ buffer \in Seq(Nat)
      /\ Delivered' = got \o (buffer \o BytesFrom(t + 1, n))
      /\ buffer' = buffer \o BytesFrom(t + 1, n)
      /\ lost' = lost \cup (t + n + 1 .. t2) /\ t + n <= t2
  BY <1>8 DEF TypeOK, Delivered
<1>10. /\ Increasing(got \o buffer) /\ lost \in SUBSET (1 .. t)
       /\ Elements(got \o buffer) = (1 .. t) \ lost
  BY DEF Reading, Delivered
<1>11. /\ buffer' \in Seq(Nat) /\ Increasing(Delivered')
       /\ lost' \subseteq 1 .. t2 /\ Elements(Delivered') = (1 .. t2) \ lost'
  <2>1. \A x, y, z \in Nat : x + y <= z => Delivers(got, buffer, x, y, z)
    BY <1>9, Deliver
  <2> HIDE DEF t, t2
  <2>2. t \in Nat /\ t2 \in Nat /\ n \in Nat /\ t + n <= t2
    BY <1>1, <1>9
  <2>3. Delivers(got, buffer, t, n, t2)
    BY <2>1, <2>2
  <2>4. /\ buffer \o BytesFrom(t + 1, n) \in Seq(Nat)
        /\ Increasing(got \o (buffer \o BytesFrom(t + 1, n)))
        /\ lost \cup (t + n + 1 .. t2) \subseteq 1 .. t2
        /\ Elements(got \o (buffer \o BytesFrom(t + 1, n)))
             = (1 .. t2) \ (lost \cup (t + n + 1 .. t2))
    BY <1>9, <1>10, <2>3, Zenon DEF Delivers
  <2> QED
    BY <1>9, <2>4, Zenon
<1>12. Reading'
  BY <1>4, <1>11 DEF Reading, Increasing, Elements
<1> QED
  BY <1>1, <1>2, <1>7, <1>11, <1>12

-----------------------------------------------------------------------------
(* What a step leaves alone *)
LEMMA QueueKept ==
    ASSUME Queue, type' = type, rxQueue' = rxQueue, arrived' = arrived
    PROVE  Queue'
  BY DEF Queue, Taken

LEMMA ReadingKept ==
    ASSUME Reading, rxQueue' = rxQueue, arrived' = arrived, lost' = lost, Delivered' = Delivered
    PROVE  Reading'
  BY DEF Reading, Taken, Increasing, Elements

LEMMA SendingKept ==
    ASSUME Sending, type' = type, wire' = wire, blocks' = blocks, written' = written
    PROVE  Sending'
  BY DEF Sending, OnWire

LEMMA WholeKept ==
    ASSUME Whole, type' = type, wire' = wire, blocks' = blocks, ends' = ends, starts' = starts
    PROVE  Whole'
  BY DEF Whole

LEMMA ReadNotifierEventStep ==
    ASSUME DInv, ReadNotifierEvent
    PROVE  DInv'
<1>1. TypeOK /\ Queue /\ Reading /\ Sending /\ Whole
  BY DEF DInv
<1>2. /\ rxQueue # <<>>
      /\ type' = type /\ readBufferMaxSize' = readBufferMaxSize /\ arrived' = arrived
      /\ got' = got /\ UNCHANGED writing
  BY DEF ReadNotifierEvent
<1>3. Sending' /\ Whole'
  BY <1>1, <1>2, SendingKept, WholeKept DEF writing, sending
<1>4. CASE Full
  <2>1. rxQueue' = rxQueue /\ buffer' = buffer /\ lost' = lost /\ readEnabled' = FALSE
    BY <1>4 DEF ReadNotifierEvent
  <2>2. Delivered' = Delivered
    BY <1>2, <2>1 DEF Delivered
  <2>3. Queue' /\ Reading'
    BY <1>1, <1>2, <2>1, <2>2, QueueKept, ReadingKept
  <2>4. readEnabled' \in BOOLEAN
    BY <2>1
  <2>5. TypeOK'
    BY <1>1, <1>2, <2>1, <2>4 DEF TypeOK, writing, sending
  <2> QED
    BY <1>3, <2>3, <2>5 DEF DInv
<1>5. CASE ~Full
  <2> DEFINE result == IF type = "raw" THEN RawRead(BytesToRead) ELSE IsoTpRead(BytesToRead)
             u == result.units
             n == result.bytes
  <2>1. /\ rxQueue' = Drop(rxQueue, u)
        /\ buffer' = buffer \o BytesFrom(Head(rxQueue).from, n)
        /\ lost' = lost \cup result.cut
        /\ readEnabled' = (readBufferMaxSize # 0 => Len(buffer') # readBufferMaxSize)
    BY <1>5 DEF ReadNotifierEvent
  <2>2. BytesToRead \in Int
    BY <1>1, DataPathAssumption DEF BytesToRead, TypeOK
  <2>3. Taken \in Nat /\ Len(rxQueue) \in Nat /\ Len(rxQueue) > 0
    BY <1>1, <1>2, EmptySeq DEF Queue, TypeOK
  <2>4. /\ u \in 0 .. Len(rxQueue) /\ n \in Nat /\ After(u) \in Nat /\ Taken + n <= After(u)
        /\ result.cut = Taken + n + 1 .. After(u)
        /\ type = "raw" => After(u) = Taken + u * FrameSize
    <3>1. CASE type = "raw"
      <4>1. /\ u \in 0 .. Len(rxQueue) /\ n = u * FrameSize /\ n \in Nat /\ result.cut = {}
            /\ After(u) = Taken + n
        BY <1>1, <1>2, <2>2, <3>1, RawReadTakes
      <4> HIDE DEF result, u, n
      <4>2. After(u) = Taken + u * FrameSize
        BY <4>1
      <4>3. /\ After(u) \in Nat /\ Taken + n <= After(u)
            /\ result.cut = Taken + n + 1 .. After(u)
        BY <2>3, <4>1
      <4> QED
        BY <4>1, <4>2, <4>3
    <3>2. CASE type = "isotp"
      <4>1. /\ u \in 0 .. 1 /\ n \in Nat /\ After(u) \in Nat /\ Taken + n <= After(u)
            /\ result.cut = Taken + n + 1 .. After(u)
        BY <1>1, <1>2, <2>2, <3>2, IsoTpReadTakes
      <4> QED
        BY <2>3, <3>2, <4>1
    <3> QED
      <4>1. type \in {"raw", "isotp"}
        BY <1>1, DataPathAssumption DEF TypeOK
      <4> QED
        BY <3>1, <3>2, <4>1
  <2> HIDE DEF u, n
  <2>5. Queue' /\ Reading' /\ rxQueue' \in Seq(Interval) /\ buffer' \in Seq(Nat)
        /\ lost' \in SUBSET Nat
    <3>1. lost' = lost \cup (Taken + n + 1 .. After(u))
      BY <2>1, <2>4
    <3> HIDE DEF result
    <3> QED
      BY <1>1, <1>2, <2>1, <2>4, <3>1, ReadKeepsReading
  <2>6. readEnabled' \in BOOLEAN
    BY <2>1, Zenon
  <2>7. TypeOK'
    <3> HIDE DEF result
    <3> QED
      BY <1>1, <1>2, <2>5, <2>6 DEF TypeOK, writing, sending
  <2> QED
    BY <1>3, <2>5, <2>7 DEF DInv
<1> QED
  BY <1>4, <1>5

LEMMA ArriveStep ==
    ASSUME DInv, NEW size \in IF type = "raw" THEN {FrameSize} ELSE MessageSizes, Arrive(size)
    PROVE  DInv'
<1>1. TypeOK /\ Queue /\ Reading /\ Sending /\ Whole
  BY DEF DInv
<1>2. /\ type' = type /\ buffer' = buffer /\ readEnabled' = readEnabled
      /\ readBufferMaxSize' = readBufferMaxSize /\ got' = got /\ lost' = lost
      /\ UNCHANGED writing
      /\ arrived' = arrived + size
      /\ rxQueue' = Append(rxQueue, Span(arrived + 1, arrived + size))
  BY DEF Arrive
<1>3. size \in Nat \ {0} /\ (type = "isotp" => size <= MaxMessage)
  <2>1. FrameSize \in Nat \ {0} /\ MaxMessage \in Nat /\ MessageSizes \subseteq 1 .. MaxMessage
    BY DataPathAssumption
  <2>2. CASE type = "raw"
    <3>1. size = FrameSize
      BY <2>2
    <3> QED
      BY <2>1, <2>2, <3>1
  <2>3. CASE type # "raw"
    <3>1. size \in 1 .. MaxMessage
      BY <2>1, <2>3
    <3> QED
      BY <2>1, <3>1
  <2> QED
    BY <2>2, <2>3
<1>4. /\ arrived \in Nat /\ rxQueue \in Seq(Interval) /\ Len(rxQueue) \in Nat
      /\ Taken \in Nat /\ Taken + 1 \in Nat \ {0} /\ Chain(rxQueue, Taken + 1, arrived)
  BY <1>1 DEF TypeOK, Queue
<1>5. arrived' \in Nat /\ arrived + 1 <= arrived'
  BY <1>2, <1>3, <1>4
<1> DEFINE s == Span(arrived + 1, arrived + size)
<1>6. s \in Interval /\ s.to = arrived + size /\ Size(s) = size
  BY <1>3, <1>4 DEF Span, Interval, Size
<1>7. Chain(rxQueue', Taken + 1, arrived')
  BY <1>2, <1>4, <1>5, ChainAppend
<1>8. Taken' = Taken
  <2>1. TakenOf(rxQueue', arrived') = Taken
    BY <1>4, <1>5, <1>7, TakenIs
  <2> QED
    BY <2>1 DEF Taken
<1>9. /\ Len(rxQueue') = Len(rxQueue) + 1 /\ rxQueue' \in Seq(Interval)
      /\ \A i \in 1 .. Len(rxQueue) : rxQueue'[i] = rxQueue[i]
      /\ rxQueue'[Len(rxQueue) + 1] = s
  BY <1>2, <1>4, <1>6
<1> HIDE DEF s
<1>10. ASSUME type = "raw", NEW i \in 1 .. Len(rxQueue')
       PROVE  rxQueue'[i].to = Taken + i * FrameSize
  <2>1. FrameSize \in Nat \ {0} /\ size = FrameSize
    BY <1>10, DataPathAssumption
  <2>2. CASE i \in 1 .. Len(rxQueue)
    BY <1>1, <1>9, <1>10, <2>2 DEF Queue
  <2>3. CASE i = Len(rxQueue) + 1
    <3>1. arrived = Taken + Len(rxQueue) * FrameSize
      <4>1. CASE Len(rxQueue) = 0
        <5>1. Taken + 1 = arrived + 1
          BY <1>4, <4>1, ChainPieces
        <5> QED
          BY <1>4, <2>1, <4>1, <5>1
      <4>2. CASE Len(rxQueue) > 0
        <5>1. rxQueue[Len(rxQueue)].to = arrived
          BY <1>4, <4>2, ChainPieces
        <5>2. Len(rxQueue) \in 1 .. Len(rxQueue)
          BY <1>4, <4>2
        <5> QED
          BY <1>1, <1>10, <5>1, <5>2 DEF Queue
      <4> QED
        BY <1>4, <4>1, <4>2
    <3> DEFINE all == Len(rxQueue) * FrameSize
    <3>2. i * FrameSize = all + FrameSize /\ all \in Nat
      <4>1. i * FrameSize = all + 1 * FrameSize /\ all \in Nat
        BY <1>4, <2>1, <2>3, Multiples
      <4>2. 1 * FrameSize = FrameSize
        BY <2>1
      <4> QED
        BY <4>1, <4>2
    <3>3. rxQueue'[i].to = arrived + size
      BY <1>6, <1>9, <2>3
    <3>4. arrived = Taken + all
      BY <3>1
    <3> HIDE DEF all
    <3> QED
      BY <1>4, <2>1, <3>2, <3>3, <3>4
  <2> QED
    BY <1>4, <1>9, <2>2, <2>3
<1>11. ASSUME type = "isotp", NEW i \in 1 .. Len(rxQueue')
       PROVE  Size(rxQueue'[i]) <= MaxMessage
  <2>1. size <= MaxMessage
    BY <1>3, <1>11
  <2>2. CASE i \in 1 .. Len(rxQueue)
    BY <1>1, <1>9, <1>11, <2>2 DEF Queue
  <2>3. CASE i = Len(rxQueue) + 1
    BY <1>6, <1>9, <2>1, <2>3
  <2> QED
    BY <1>4, <1>9, <2>2, <2>3
<1>12. Queue'
  BY <1>2, <1>4, <1>7, <1>8, <1>10, <1>11 DEF Queue
<1>13. Reading'
  <2>1. Delivered' = Delivered
    BY <1>2 DEF Delivered
  <2> QED
    BY <1>1, <1>2, <1>8, <2>1 DEF Reading, Increasing, Elements
<1>14. TypeOK'
  BY <1>1, <1>2, <1>5, <1>9 DEF TypeOK, writing, sending
<1>15. Sending' /\ Whole'
  BY <1>1, <1>2, SendingKept, WholeKept DEF writing, sending
<1> QED
  BY <1>12, <1>13, <1>14, <1>15 DEF DInv

LEMMA ReadAllStep ==
    ASSUME DInv, ReadAll
    PROVE  DInv'
<1>1. TypeOK /\ Queue /\ Reading /\ Sending /\ Whole
  BY DEF DInv
<1>2. /\ type' = type /\ rxQueue' = rxQueue /\ readBufferMaxSize' = readBufferMaxSize
      /\ arrived' = arrived /\ lost' = lost /\ UNCHANGED writing
      /\ got' = got \o buffer /\ buffer' = <<>>
      /\ readEnabled' = (readEnabled \/ readBufferMaxSize # 0)
  BY DEF ReadAll
<1>3. got \o buffer \in Seq(Nat) /\ <<>> \in Seq(Nat)
  BY <1>1, EmptySeq, ConcatProperties DEF TypeOK
<1>4. Delivered' = Delivered
  BY <1>2, <1>3, ConcatEmptySeq DEF Delivered
<1>5. readEnabled' \in BOOLEAN
  BY <1>2, Zenon
<1>6. TypeOK'
  BY <1>1, <1>2, <1>3, <1>5 DEF TypeOK, writing, sending
<1>7. Queue' /\ Reading'
  BY <1>1, <1>2, <1>4, QueueKept, ReadingKept
<1>8. Sending' /\ Whole'
  BY <1>1, <1>2, SendingKept, WholeKept DEF writing, sending
<1> QED
  BY <1>6, <1>7, <1>8 DEF DInv

LEMMA SetReadBufferSizeStep ==
    ASSUME DInv, NEW size \in BufferSizes, SetReadBufferSize(size)
    PROVE  DInv'
<1>1. TypeOK /\ Queue /\ Reading /\ Sending /\ Whole
  BY DEF DInv
<1>2. /\ type' = type /\ rxQueue' = rxQueue /\ buffer' = buffer /\ readEnabled' = readEnabled
      /\ arrived' = arrived /\ got' = got /\ lost' = lost /\ UNCHANGED writing
      /\ readBufferMaxSize' \in Nat
  BY DataPathAssumption DEF SetReadBufferSize
<1>3. TypeOK'
  BY <1>1, <1>2 DEF TypeOK, writing, sending
<1>4. Delivered' = Delivered
  BY <1>2 DEF Delivered
<1>5. Queue' /\ Reading' /\ Sending' /\ Whole'
  BY <1>1, <1>2, <1>4, QueueKept, ReadingKept, SendingKept, WholeKept DEF writing, sending
<1> QED
  BY <1>3, <1>5 DEF DInv

-----------------------------------------------------------------------------
(* Writing *)
LEMMA WriteStep ==
    ASSUME DInv, NEW size \in WriteSizes, Write(size)
    PROVE  DInv'
<1>1. TypeOK /\ Queue /\ Reading /\ Sending /\ Whole
  BY DEF DInv
<1>2. /\ type' = type /\ UNCHANGED reading /\ pendingBytesWritten' = pendingBytesWritten
      /\ emittedBytesWritten' = emittedBytesWritten /\ busy' = busy /\ wire' = wire
      /\ written' = written + size /\ ends' = ends \cup {written + size}
      /\ starts' = (IF blocks = <<>> THEN starts \cup {written + 1} ELSE starts)
      /\ writeEnabled' = TRUE
  BY DEF Write
<1>3. size \in Nat \ {0}
  BY DataPathAssumption
<1>4. /\ written \in Nat /\ tail \in Nat /\ blocks \in Seq(Interval) /\ Len(blocks) \in Nat
      /\ ends \in SUBSET Nat /\ starts \in SUBSET Nat
      /\ OnWire \in Nat /\ OnWire + 1 \in Nat \ {0} /\ Chain(blocks, OnWire + 1, written)
  BY <1>1 DEF TypeOK, Sending
<1>5. /\ written' \in Nat /\ written + 1 <= written' /\ written <= written'
      /\ written' = written + size
  BY <1>2, <1>3, <1>4
<1>6. OnWire' = OnWire
  BY <1>2 DEF OnWire
<1>7. /\ tail' \in Nat /\ blocks' \in Seq(Interval) /\ Chain(blocks', OnWire + 1, written')
      /\ \A i \in 1 .. Len(blocks') : blocks'[i].to = written' \/
            (i \in 1 .. Len(blocks) /\ blocks'[i].to = blocks[i].to)
      /\ Len(blocks) <= Len(blocks') /\ Len(blocks') \in Nat
      /\ \A i \in 1 .. Len(blocks) : blocks'[i].from = blocks[i].from
      /\ blocks = <<>> => Len(blocks') = 1 /\ blocks'[1].from = written + 1
  <2>1. CASE blocks # <<>> /\ blocks' = [blocks EXCEPT ![Len(blocks)] = Span(@.from, written')]
             /\ tail' = tail + size
    <3> DEFINE m == Len(blocks)
    <3>1. m > 0
      BY <1>4, <2>1, EmptySeq
    <3>2. Chain(blocks', OnWire + 1, written')
      BY <1>4, <1>5, <2>1, ChainGrows
    <3>3. Span(blocks[m].from, written') \in Interval
      <4>1. blocks[m].from \in Nat \ {0}
        BY <1>4, <3>1, PiecesAreNumbers
      <4> QED
        BY <1>5, <4>1 DEF Span, Interval
    <3>4. /\ Len(blocks') = m /\ blocks' \in Seq(Interval)
          /\ \A i \in 1 .. m - 1 : blocks'[i] = blocks[i]
          /\ blocks'[m] = Span(blocks[m].from, written')
      BY <1>4, <2>1, <3>1, <3>3
    <3>5. blocks'[m].from = blocks[m].from /\ blocks'[m].to = written'
      BY <3>4 DEF Span
    <3>6. tail' \in Nat
      BY <1>3, <1>4, <2>1
    <3> QED
      BY <1>4, <2>1, <3>1, <3>2, <3>4, <3>5, <3>6
  <2>2. CASE blocks' = Append(blocks, Span(written + 1, written')) /\ tail' = size
    <3> DEFINE s == Span(written + 1, written')
    <3>1. Chain(blocks', OnWire + 1, written')
      BY <1>4, <1>5, <2>2, ChainAppend
    <3>2. s \in Interval /\ s.from = written + 1 /\ s.to = written'
      BY <1>4, <1>5 DEF Span, Interval
    <3>3. /\ Len(blocks') = Len(blocks) + 1 /\ blocks' \in Seq(Interval)
          /\ \A i \in 1 .. Len(blocks) : blocks'[i] = blocks[i]
          /\ blocks'[Len(blocks) + 1] = s
      BY <1>4, <2>2, <3>2
    <3> HIDE DEF s
    <3>4. blocks = <<>> => Len(blocks) = 0
      BY EmptySeq
    <3> QED
      BY <1>3, <1>4, <2>2, <3>1, <3>2, <3>3, <3>4
  <2>3. PICK fits \in BOOLEAN :
          IF blocks # <<>> /\ fits
          THEN /\ blocks' = [blocks EXCEPT ![Len(blocks)] = Span(@.from, written + size)]
               /\ tail' = tail + size
          ELSE /\ blocks' = Append(blocks, Span(written + 1, written + size))
               /\ tail' = size
    BY DEF Write
  <2> QED
    BY <1>5, <2>1, <2>2, <2>3
<1>8. TypeOK'
  <2>1. writeEnabled' \in BOOLEAN
    BY <1>2
  <2>2. ends' \in SUBSET Nat /\ starts' \in SUBSET Nat
    BY <1>2, <1>3, <1>4
  <2> QED
    BY <1>1, <1>2, <1>5, <1>7, <2>1, <2>2 DEF TypeOK, reading
<1>9. Queue' /\ Reading'
  <2>1. Delivered' = Delivered
    BY <1>2 DEF Delivered, reading
  <2> QED
    BY <1>1, <1>2, <2>1, QueueKept, ReadingKept DEF reading
<1>10. Sending'
  BY <1>1, <1>2, <1>6, <1>7 DEF Sending
<1>11. Whole'
  <2> SUFFICES ASSUME type = "isotp"
               PROVE  /\ \A i \in 1 .. Len(wire) : wire[i].to \in ends'
                      /\ \A i \in 1 .. Len(blocks') : blocks'[i].to \in ends'
                      /\ \A n \in starts' : \/ \E i \in 1 .. Len(wire) : wire[i].from = n
                                            \/ \E i \in 1 .. Len(blocks') : blocks'[i].from = n
    BY <1>2 DEF Whole
  <2>1. \A i \in 1 .. Len(wire) : wire[i].to \in ends'
    BY <1>1, <1>2 DEF Whole
  <2>2. \A i \in 1 .. Len(blocks') : blocks'[i].to \in ends'
    BY <1>1, <1>2, <1>7 DEF Whole
  <2>3. ASSUME NEW n \in starts
        PROVE  \/ \E i \in 1 .. Len(wire) : wire[i].from = n
               \/ \E i \in 1 .. Len(blocks') : blocks'[i].from = n
    <3>1. CASE \E i \in 1 .. Len(wire) : wire[i].from = n
      BY <3>1
    <3>2. CASE \E i \in 1 .. Len(blocks) : blocks[i].from = n
      <4>1. PICK i \in 1 .. Len(blocks) : blocks[i].from = n
        BY <3>2
      <4>2. i \in 1 .. Len(blocks') /\ blocks'[i].from = n
        BY <1>4, <1>7, <4>1
      <4> QED
        BY <4>2
    <3> QED
      BY <1>1, <3>1, <3>2 DEF Whole
  <2>4. ASSUME blocks = <<>> PROVE \E i \in 1 .. Len(blocks') : blocks'[i].from = written + 1
    <3>1. blocks = <<>> => Len(blocks') = 1 /\ blocks'[1].from = written + 1
      BY <1>7
    <3>2. Len(blocks') = 1 /\ blocks'[1].from = written + 1
      BY <2>4, <3>1, Zenon
    <3>3. 1 \in 1 .. Len(blocks')
      BY <3>2
    <3> QED
      BY <3>2, <3>3
  <2> QED
    BY <1>2, <2>1, <2>2, <2>3, <2>4
<1> QED
  BY <1>8, <1>9, <1>10, <1>11 DEF DInv

LEMMA FreeChain ==
    ASSUME NEW a \in Nat \ {0}, NEW b \in Nat, Chain(blocks, a, b), blocks # <<>>,
           NEW n \in 0 .. Size(blocks[1])
    PROVE  /\ Free(n) \in Seq(Interval) /\ Chain(Free(n), a + n, b)
           /\ n = Size(blocks[1]) => /\ Len(Free(n)) = Len(blocks) - 1
                                     /\ \A i \in 1 .. Len(Free(n)) : Free(n)[i] = blocks[i + 1]
<1>1. /\ blocks \in Seq(Interval) /\ Len(blocks) \in Nat /\ Len(blocks) > 0
      /\ 1 \in 1 .. Len(blocks)
  BY EmptySeq DEF Chain
<1>2. /\ blocks[1].from = a /\ blocks[1].to \in Nat /\ a <= blocks[1].to
      /\ Size(blocks[1]) = blocks[1].to - a + 1
  BY <1>1, ChainPieces DEF Size
<1>3. CASE n = Size(blocks[1])
  <2>1. Free(n) = Tail(blocks)
    BY <1>3 DEF Free
  <2>2. /\ Tail(blocks) \in Seq(Interval) /\ Len(Tail(blocks)) = Len(blocks) - 1
        /\ \A i \in 1 .. Len(Tail(blocks)) : Tail(blocks)[i] = blocks[i + 1]
    BY <1>1, HeadTailProperties
  <2> DEFINE q == Tail(blocks)
  <2>3. blocks[1].to + 1 = a + n
    BY <1>2, <1>3
  <2>4. 1 \in 0 .. Len(blocks) /\ 1 > 0
    BY <1>1
  <2>5. q \in Seq(Interval) /\ Len(q) = Len(blocks) - 1
        /\ \A i \in 1 .. Len(q) : q[i] = blocks[i + 1]
    BY <2>2
  <2> HIDE DEF q
  <2>6. Chain(q, blocks[1].to + 1, b)
    BY <2>4, <2>5, ChainWithout
  <2>7. Chain(Tail(blocks), a + n, b)
    BY <2>3, <2>6 DEF q
  <2> QED
    BY <2>1, <2>2, <2>7
<1>4. CASE n < Size(blocks[1])
  <2>1. Free(n) = [blocks EXCEPT ![1] = Span(@.from + n, @.to)]
    BY <1>2, <1>4 DEF Free
  <2>2. n \in Nat
    BY <1>2
  <2>3. Chain([blocks EXCEPT ![1] = Span(@.from + n, @.to)], a + n, b)
    BY <1>4, <2>2, ChainShrinks
  <2> QED
    BY <1>2, <1>4, <2>1, <2>3 DEF Chain
<1> QED
  BY <1>2, <1>3, <1>4

(* What is appended to the wire comes off the write buffer *)
LEMMA SentStep ==
    ASSUME TypeOK, Sending, blocks # <<>>, NEW units, NEW pending \in Nat,
           NEW n \in 0 .. Size(blocks[1]), Chain(units, OnWire + 1, OnWire + n),
           Sent(units, n, pending), written' = written
    PROVE  /\ OnWire' \in Nat /\ Chain(wire', 1, OnWire')
           /\ Chain(blocks', OnWire' + 1, written') /\ OnWire' = OnWire + n
           /\ wire' \in Seq(Interval) /\ blocks' \in Seq(Interval)
           /\ pendingBytesWritten' \in Nat /\ writeEnabled' \in BOOLEAN
           /\ Len(wire) \in Nat /\ Len(units) \in Nat
           /\ Len(wire') = Len(wire) + Len(units)
           /\ \A i \in 1 .. Len(wire) : wire'[i] = wire[i]
           /\ \A i \in 1 .. Len(units) : wire'[i + Len(wire)] = units[i]
<1>1. /\ wire' = wire \o units /\ blocks' = Free(n)
      /\ pendingBytesWritten' = pending + n /\ writeEnabled' = TRUE
  BY DEF Sent
<1>2. /\ OnWire \in Nat /\ OnWire + 1 \in Nat \ {0} /\ written \in Nat
      /\ Chain(wire, 1, OnWire) /\ Chain(blocks, OnWire + 1, written)
  BY DEF Sending, TypeOK
<1>3. n \in Nat
  <2>1. /\ blocks[1].from \in Nat /\ blocks[1].to \in Nat
    <3>1. Len(blocks) > 0 /\ blocks \in Seq(Interval)
      BY EmptySeq DEF TypeOK
    <3> QED
      BY <3>1, PiecesAreNumbers
  <2> QED
    BY <2>1 DEF Size
<1>4. OnWire + n \in Nat /\ 1 \in Nat \ {0}
  BY <1>2, <1>3
<1>5. Chain(wire', 1, OnWire + n)
  <2>1. Chain(wire \o units, 1, OnWire + n)
    BY <1>2, <1>4, ChainConcat
  <2> QED
    BY <1>1, <2>1
<1>6. OnWire' = OnWire + n
  <2>1. LastOf(wire') = OnWire + n
    BY <1>4, <1>5, LastIs
  <2> QED
    BY <2>1 DEF OnWire, LastOf
<1>7. blocks' \in Seq(Interval) /\ Chain(blocks', (OnWire + 1) + n, written)
  <2>1. Free(n) \in Seq(Interval) /\ Chain(Free(n), (OnWire + 1) + n, written)
    BY <1>2, FreeChain
  <2> QED
    BY <1>1, <2>1
<1>8. (OnWire + 1) + n = (OnWire + n) + 1
  BY <1>2, <1>3
<1>9. wire \in Seq(Interval) /\ units \in Seq(Interval) /\ wire' \in Seq(Interval)
  BY <1>5 DEF Chain, TypeOK
<1>10. /\ Len(wire) \in Nat /\ Len(units) \in Nat
       /\ Len(wire') = Len(wire) + Len(units)
       /\ \A i \in 1 .. Len(wire) : wire'[i] = wire[i]
       /\ \A i \in 1 .. Len(units) : wire'[i + Len(wire)] = units[i]
  <2>1. /\ Len(wire \o units) = Len(wire) + Len(units)
        /\ \A i \in 1 .. Len(wire) : (wire \o units)[i] = wire[i]
        /\ \A i \in 1 .. Len(units) : (wire \o units)[i + Len(wire)] = units[i]
    BY <1>9, ConcatElements
  <2> QED
    BY <1>1, <1>9, <2>1
<1>11. pendingBytesWritten' \in Nat /\ writeEnabled' \in BOOLEAN
  BY <1>1, <1>3
<1>12. Chain(blocks', OnWire' + 1, written')
  BY <1>6, <1>7, <1>8
<1> QED
  BY <1>4, <1>5, <1>6, <1>7, <1>9, <1>10, <1>11, <1>12

(* Pieces between the members of an increasing series *)
Series(a, g, k) == [i \in 1 .. k |-> Span(a + g[i - 1], a + g[i] - 1)]

LEMMA SeriesIsAChain ==
    ASSUME NEW a \in Nat \ {0}, NEW k \in Nat, NEW g, \A i \in 0 .. k : g[i] \in Nat,
           g[0] = 0, \A i \in 0 .. k : \A j \in 0 .. k : i < j => g[i] < g[j]
    PROVE  /\ Len(Series(a, g, k)) = k /\ Chain(Series(a, g, k), a, a + g[k] - 1)
           /\ \A i \in 1 .. k : Series(a, g, k)[i].to = a + g[i] - 1
<1> DEFINE p == [i \in 1 .. k |-> Span(a + g[i - 1], a + g[i] - 1)]
<1>1. ASSUME NEW i \in 1 .. k
      PROVE  /\ g[i - 1] \in Nat /\ g[i] \in Nat /\ g[i - 1] < g[i]
             /\ Span(a + g[i - 1], a + g[i] - 1) \in Interval
  <2>1. i - 1 \in 0 .. k /\ i \in 0 .. k /\ i - 1 < i
    OBVIOUS
  <2>2. g[i - 1] \in Nat /\ g[i] \in Nat /\ g[i - 1] < g[i]
    BY <2>1
  <2> QED
    BY <2>2 DEF Span, Interval
<1>2. /\ p \in Seq(Interval) /\ Len(p) = k
      /\ \A i \in 1 .. k : p[i] = Span(a + g[i - 1], a + g[i] - 1)
  BY <1>1
<1>3. \A i \in 1 .. k : p[i].from = a + g[i - 1] /\ p[i].to = a + g[i] - 1
  BY <1>2 DEF Span
<1> HIDE DEF p
<1>4. k \in 0 .. k /\ g[k] \in Nat /\ a + g[k] - 1 \in Nat
  OBVIOUS
<1>5. Len(p) = 0 => a = (a + g[k] - 1) + 1
  BY <1>2
<1>6. ASSUME Len(p) > 0 PROVE p[1].from = a /\ p[Len(p)].to = a + g[k] - 1
  <2>1. 1 \in 1 .. k /\ k \in 1 .. k
    BY <1>2, <1>6
  <2>2. p[1].from = a + g[1 - 1]
    BY <1>3, <2>1
  <2> QED
    BY <1>2, <1>3, <2>1, <2>2
<1>7. ASSUME NEW i \in 1 .. Len(p) PROVE p[i].from <= p[i].to
  <2>1. i \in 1 .. k
    BY <1>2
  <2>2. g[i - 1] \in Nat /\ g[i] \in Nat /\ g[i - 1] < g[i]
    BY <1>1, <2>1
  <2>3. p[i].from = a + g[i - 1] /\ p[i].to = a + g[i] - 1
    BY <1>3, <2>1
  <2> QED
    BY <2>2, <2>3
<1>8. ASSUME NEW i \in 1 .. Len(p) - 1 PROVE p[i + 1].from = p[i].to + 1
  <2>1. i \in 1 .. k /\ i + 1 \in 1 .. k /\ (i + 1) - 1 = i
    BY <1>2
  <2>2. p[i + 1].from = a + g[(i + 1) - 1] /\ p[i].to = a + g[i] - 1 /\ g[i] \in Nat
    BY <1>1, <1>3, <2>1
  <2> QED
    BY <2>1, <2>2
<1>9. ASSUME NEW i \in 1 .. Len(p), NEW j \in 1 .. Len(p), i < j PROVE p[i].to < p[j].from
  <2>1. i \in 1 .. k /\ j \in 1 .. k /\ i \in 0 .. k /\ j - 1 \in 0 .. k /\ i <= j - 1
    BY <1>2, <1>9
  <2>2. g[i] <= g[j - 1] /\ g[i] \in Nat /\ g[j - 1] \in Nat
    <3>1. CASE i = j - 1
      BY <2>1, <3>1
    <3>2. CASE i < j - 1
      BY <2>1, <3>2
    <3> QED
      BY <2>1, <3>1, <3>2
  <2>3. p[i].to = a + g[i] - 1 /\ p[j].from = a + g[j - 1]
    BY <1>3, <2>1
  <2> QED
    BY <2>2, <2>3
<1>10. Chain(p, a, a + g[k] - 1)
  <2>1. Linked(p, a, a + g[k] - 1)
    BY <1>2, <1>4, <1>5, <1>6, <1>7, <1>8, <1>9 DEF Linked
  <2> QED
    BY <1>2, <2>1, IsChain
<1> QED
  BY <1>2, <1>3, <1>10 DEF p, Series

(* k frames one after the other *)
FramesFrom(a, c, k) == [i \in 1 .. k |-> Span(a + (i - 1) * c, a + i * c - 1)]

LEMMA FramesAreAChain ==
    ASSUME NEW a \in Nat \ {0}, NEW c \in Nat \ {0}, NEW k \in Nat
    PROVE  /\ Len(FramesFrom(a, c, k)) = k /\ Chain(FramesFrom(a, c, k), a, a + k * c - 1)
           /\ \A i \in 1 .. k : FramesFrom(a, c, k)[i].to = a + i * c - 1
<1> DEFINE g == [i \in 0 .. k |-> i * c]
           p == FramesFrom(a, c, k)
           q == Series(a, g, k)
<1>1. \A i \in 0 .. k : g[i] = i * c
  OBVIOUS
<1>2. \A i \in 0 .. k : g[i] \in Nat
  BY <1>1, Multiples
<1>3. ASSUME NEW i \in 0 .. k, NEW j \in 0 .. k, i < j PROVE g[i] < g[j]
  <2>1. i + 1 \in Nat /\ i + 1 <= j /\ 1 \in Nat
    BY <1>3
  <2>2. (i + 1) * c <= j * c /\ (i + 1) * c = i * c + 1 * c
    BY <2>1, Multiples
  <2>3. 1 * c = c
    OBVIOUS
  <2> DEFINE x == i * c
             y == j * c
             z == (i + 1) * c
  <2>4. z <= y /\ z = x + c /\ x \in Nat /\ y \in Nat
    BY <2>1, <2>2, <2>3, Multiples
  <2>5. g[i] = x /\ g[j] = y
    BY <1>1
  <2> HIDE DEF x, y, z, g
  <2> QED
    BY <2>4, <2>5
<1>4. g[0] = 0
  BY <1>1
<1>5. p = q
  <2>1. \A i \in 1 .. k : g[i - 1] = (i - 1) * c /\ g[i] = i * c
    BY <1>1
  <2> HIDE DEF g
  <2> QED
    BY <2>1 DEF FramesFrom, Series
<1>6. k \in 0 .. k /\ g[k] = k * c
  BY <1>1
<1>7. /\ Len(q) = k /\ Chain(q, a, a + g[k] - 1)
      /\ \A i \in 1 .. k : q[i].to = a + g[i] - 1
  <2> HIDE DEF g
  <2> QED
    BY <1>2, <1>3, <1>4, SeriesIsAChain
<1>8. \A i \in 1 .. k : g[i] = i * c
  BY <1>1
<1> HIDE DEF g, p, q
<1>9. /\ Len(p) = k /\ Chain(p, a, a + k * c - 1)
      /\ \A i \in 1 .. k : p[i].to = a + i * c - 1
  BY <1>5, <1>6, <1>7, <1>8
<1> QED
  BY <1>9 DEF p

LEMMA RawWriteStep ==
    ASSUME TypeOK, Sending, blocks # <<>>, type = "raw", NEW pending \in Nat, RawWrite(pending),
           type' = type, written' = written
    PROVE  /\ Sending' /\ wire' \in Seq(Interval) /\ blocks' \in Seq(Interval)
           /\ pendingBytesWritten' \in Nat /\ writeEnabled' \in BOOLEAN /\ busy' = busy
<1>1. FrameSize \in Nat \ {0}
  BY DataPathAssumption
<1>2. OnWire \in Nat /\ Chain(wire, 1, OnWire) /\ Chain(blocks, OnWire + 1, written)
  BY DEF Sending
<1>3. Len(blocks) > 0 /\ Len(blocks) \in Nat
  BY EmptySeq DEF TypeOK
<1>4. /\ blocks[1].from = OnWire + 1 /\ blocks[1].to \in Nat /\ OnWire + 1 <= blocks[1].to
      /\ OnWire + 1 \in Nat \ {0}
  <2>1. OnWire + 1 \in Nat \ {0} /\ 1 \in 1 .. Len(blocks) /\ written \in Nat
    BY <1>2, <1>3 DEF TypeOK
  <2> QED
    BY <1>2, <1>3, <2>1, ChainPieces
<1>5. Size(blocks[1]) \in Nat
  BY <1>2, <1>4 DEF Size
<1>6. PICK k \in 0 .. Size(blocks[1]) \div FrameSize :
        /\ Sent(FramesFrom(OnWire + 1, FrameSize, k), k * FrameSize, pending)
        /\ busy' = busy
  BY <1>4 DEF RawWrite, FramesFrom
<1> DEFINE units == FramesFrom(OnWire + 1, FrameSize, k)
           n == k * FrameSize
<1>7. k \in Nat /\ n \in Nat /\ n <= Size(blocks[1])
  <2>1. k \in Nat /\ k * FrameSize <= Size(blocks[1])
    BY <1>1, <1>5, WholeOnes
  <2> QED
    BY <1>1, <2>1, Multiples
<1>8. /\ Len(units) = k /\ Chain(units, OnWire + 1, OnWire + 1 + n - 1)
      /\ \A i \in 1 .. k : units[i].to = OnWire + 1 + i * FrameSize - 1
  BY <1>1, <1>4, <1>7, FramesAreAChain
<1>9. OnWire + 1 + n - 1 = OnWire + n /\ n \in 0 .. Size(blocks[1])
  BY <1>2, <1>5, <1>7
<1> HIDE DEF units, n
<1>10. Sent(units, n, pending)
  BY <1>6 DEF units, n
<1>11. /\ OnWire' \in Nat /\ Chain(wire', 1, OnWire')
       /\ Chain(blocks', OnWire' + 1, written') /\ OnWire' = OnWire + n
       /\ wire' \in Seq(Interval) /\ blocks' \in Seq(Interval)
       /\ pendingBytesWritten' \in Nat /\ writeEnabled' \in BOOLEAN
       /\ Len(wire) \in Nat /\ Len(units) \in Nat
       /\ Len(wire') = Len(wire) + Len(units)
       /\ \A i \in 1 .. Len(wire) : wire'[i] = wire[i]
       /\ \A i \in 1 .. Len(units) : wire'[i + Len(wire)] = units[i]
  BY <1>8, <1>9, <1>10, SentStep
<1>12. \A i \in 1 .. Len(wire) : wire[i].to = i * FrameSize
  BY DEF Sending
<1>13. OnWire = Len(wire) * FrameSize
  <2>1. CASE Len(wire) = 0
    <3>1. wire = <<>>
      BY <2>1, EmptySeq DEF TypeOK
    <3> QED
      BY <1>1, <2>1, <3>1 DEF OnWire
  <2>2. CASE Len(wire) > 0
    <3>1. wire # <<>> /\ Len(wire) \in 1 .. Len(wire)
      BY <1>11, <2>2, EmptySeq
    <3> QED
      BY <1>12, <3>1 DEF OnWire
  <2> QED
    BY <1>11, <2>1, <2>2
<1>14. ASSUME NEW i \in 1 .. Len(wire') PROVE wire'[i].to = i * FrameSize
  <2>1. CASE i <= Len(wire)
    <3>1. i \in 1 .. Len(wire)
      BY <1>11, <2>1
    <3> QED
      BY <1>11, <1>12, <3>1
  <2>2. CASE i > Len(wire)
    <3> DEFINE j == i - Len(wire)
               x == Len(wire) * FrameSize
               y == j * FrameSize
    <3>1. j \in 1 .. k /\ j \in 1 .. Len(units) /\ j + Len(wire) = i
          /\ j \in Nat
      BY <1>8, <1>11, <2>2
    <3>2. x \in Nat /\ y \in Nat /\ i * FrameSize = y + x
      BY <1>1, <1>11, <3>1, Multiples
    <3>3. wire'[i] = units[j]
      BY <1>11, <3>1
    <3>4. units[j].to = OnWire + 1 + y - 1
      BY <1>8, <3>1
    <3>5. OnWire = x
      BY <1>13
    <3> HIDE DEF x, y, j
    <3> QED
      BY <3>2, <3>3, <3>4, <3>5
  <2> QED
    BY <1>11, <2>1, <2>2
<1>15. Sending'
  BY <1>11, <1>14 DEF Sending
<1> QED
  BY <1>6, <1>11, <1>15

LEMMA IsoTpWriteStep ==
    ASSUME TypeOK, Sending, Whole, blocks # <<>>, type = "isotp", NEW pending \in Nat,
           IsoTpWrite(pending), type' = type, written' = written, ends' = ends, starts' = starts
    PROVE  /\ Sending' /\ Whole' /\ wire' \in Seq(Interval) /\ blocks' \in Seq(Interval)
           /\ pendingBytesWritten' \in Nat /\ writeEnabled' \in BOOLEAN /\ busy' \in BOOLEAN
<1>1. CASE busy \/ Size(blocks[1]) > MaxMessage
  <2>1. /\ pendingBytesWritten' = pending /\ wire' = wire /\ blocks' = blocks
        /\ writeEnabled' = writeEnabled /\ busy' = busy
    BY <1>1 DEF IsoTpWrite
  <2>2. Sending' /\ Whole'
    BY <2>1, SendingKept, WholeKept
  <2> QED
    BY <2>1, <2>2 DEF TypeOK
<1>2. CASE ~(busy \/ Size(blocks[1]) > MaxMessage)
  <2> DEFINE b == blocks[1]
             units == <<b>>
             n == Size(b)
  <2>1. Sent(units, n, pending) /\ busy' = TRUE
    BY <1>2 DEF IsoTpWrite
  <2>2. OnWire \in Nat /\ Chain(wire, 1, OnWire) /\ Chain(blocks, OnWire + 1, written)
    BY DEF Sending
  <2>3. Len(blocks) > 0 /\ Len(blocks) \in Nat /\ 1 \in 1 .. Len(blocks)
    BY EmptySeq DEF TypeOK
  <2>4. b \in Interval /\ b.from = OnWire + 1 /\ b.to \in Nat /\ b.from <= b.to
    <3>1. OnWire + 1 \in Nat \ {0} /\ written \in Nat
      BY <2>2 DEF TypeOK
    <3>2. b \in Interval
      BY <2>3, PiecesAreNumbers DEF TypeOK
    <3> QED
      BY <2>2, <2>3, <3>1, <3>2, ChainPieces
  <2>5. n \in 0 .. Size(blocks[1]) /\ OnWire + n = b.to
    BY <2>2, <2>4 DEF Size
  <2>6. Len(units) = 1 /\ units[1] = b /\ Chain(units, OnWire + 1, OnWire + n)
    <3>1. Chain(<<b>>, b.from, b.to)
      BY <2>4, ChainOfOne
    <3> QED
      BY <2>4, <2>5, <3>1
  <2>7. /\ Len(Free(n)) = Len(blocks) - 1
        /\ \A i \in 1 .. Len(Free(n)) : Free(n)[i] = blocks[i + 1]
    <3>1. OnWire + 1 \in Nat \ {0} /\ written \in Nat /\ n = Size(blocks[1])
      BY <2>2 DEF TypeOK
    <3> HIDE DEF n
    <3> QED
      BY <2>2, <2>5, <3>1, FreeChain
  <2>8. blocks' = Free(n)
    BY <2>1 DEF Sent
  <2> HIDE DEF units, n
  <2>9. /\ OnWire' \in Nat /\ Chain(wire', 1, OnWire')
        /\ Chain(blocks', OnWire' + 1, written')
        /\ wire' \in Seq(Interval) /\ blocks' \in Seq(Interval)
        /\ pendingBytesWritten' \in Nat /\ writeEnabled' \in BOOLEAN
        /\ Len(wire) \in Nat /\ Len(wire') = Len(wire) + Len(units)
        /\ \A i \in 1 .. Len(wire) : wire'[i] = wire[i]
        /\ \A i \in 1 .. Len(units) : wire'[i + Len(wire)] = units[i]
    BY <2>1, <2>5, <2>6, SentStep
  <2>10. /\ Len(wire') = Len(wire) + 1 /\ wire'[Len(wire) + 1] = b
         /\ Len(blocks') = Len(blocks) - 1
         /\ \A i \in 1 .. Len(blocks') : blocks'[i] = blocks[i + 1]
    <3>1. 1 \in 1 .. Len(units) /\ 1 + Len(wire) = Len(wire) + 1
      BY <2>6, <2>9
    <3> QED
      BY <2>6, <2>7, <2>8, <2>9, <3>1
  <2> HIDE DEF b
  <2>11. Sending'
    BY <2>9 DEF Sending
  <2>12. /\ \A i \in 1 .. Len(wire) : wire[i].to \in ends
         /\ \A i \in 1 .. Len(blocks) : blocks[i].to \in ends
         /\ \A m \in starts : \/ \E i \in 1 .. Len(wire) : wire[i].from = m
                              \/ \E i \in 1 .. Len(blocks) : blocks[i].from = m
         /\ b = blocks[1]
    BY DEF Whole, b
  <2>13. ASSUME NEW i \in 1 .. Len(wire') PROVE wire'[i].to \in ends
    <3>1. CASE i \in 1 .. Len(wire)
      BY <2>9, <2>12, <3>1
    <3>2. CASE i = Len(wire) + 1
      BY <2>3, <2>10, <2>12, <3>2
    <3> QED
      BY <2>9, <2>10, <3>1, <3>2
  <2>14. ASSUME NEW i \in 1 .. Len(blocks') PROVE blocks'[i].to \in ends
    <3>1. i + 1 \in 1 .. Len(blocks)
      BY <2>3, <2>10
    <3> QED
      BY <2>10, <2>12, <3>1
  <2>15. ASSUME NEW m \in starts
         PROVE  \/ \E i \in 1 .. Len(wire') : wire'[i].from = m
                \/ \E i \in 1 .. Len(blocks') : blocks'[i].from = m
    <3>1. CASE \E i \in 1 .. Len(wire) : wire[i].from = m
      <4>1. PICK i \in 1 .. Len(wire) : wire[i].from = m
        BY <3>1
      <4>2. i \in 1 .. Len(wire') /\ wire'[i].from = m
        BY <2>9, <2>10, <4>1
      <4> QED
        BY <4>2
    <3>2. CASE \E i \in 1 .. Len(blocks) : blocks[i].from = m
      <4>1. PICK i \in 1 .. Len(blocks) : blocks[i].from = m
        BY <3>2
      <4>2. CASE i = 1
        <5>1. Len(wire) + 1 \in 1 .. Len(wire') /\ wire'[Len(wire) + 1].from = m
          BY <2>9, <2>10, <2>12, <4>1, <4>2
        <5> QED
          BY <5>1
      <4>3. CASE i > 1
        <5>1. i - 1 \in 1 .. Len(blocks') /\ (i - 1) + 1 = i
          BY <2>3, <2>10, <4>3
        <5>2. blocks'[i - 1].from = m
          BY <2>10, <4>1, <5>1
        <5> QED
          BY <5>1, <5>2
      <4> QED
        BY <4>2, <4>3
    <3> QED
      BY <2>12, <3>1, <3>2
  <2>16. Whole'
    BY <2>13, <2>14, <2>15 DEF Whole
  <2>17. busy' \in BOOLEAN
    BY <2>1
  <2> QED
    BY <2>9, <2>11, <2>16, <2>17
<1> QED
  BY <1>1, <1>2

LEMMA FinishWriteStep ==
    ASSUME DInv, NEW pending \in Nat, FinishWrite(pending), emittedBytesWritten' \in BOOLEAN
    PROVE  DInv'
<1>1. TypeOK /\ Queue /\ Reading /\ Sending /\ Whole
  BY DEF DInv
<1>2. /\ type' = type /\ UNCHANGED reading /\ tail' = tail /\ written' = written
      /\ ends' = ends /\ starts' = starts
  BY DEF FinishWrite
<1>3. Queue' /\ Reading'
  <2>1. Delivered' = Delivered
    BY <1>2 DEF Delivered, reading
  <2> QED
    BY <1>1, <1>2, <2>1, QueueKept, ReadingKept DEF reading
<1>4. /\ Sending' /\ Whole' /\ wire' \in Seq(Interval) /\ blocks' \in Seq(Interval)
      /\ pendingBytesWritten' \in Nat /\ writeEnabled' \in BOOLEAN /\ busy' \in BOOLEAN
  <2>1. CASE blocks = <<>>
    <3>1. /\ writeEnabled' = FALSE /\ pendingBytesWritten' = pending /\ wire' = wire
          /\ blocks' = blocks /\ busy' = busy
      BY <2>1 DEF FinishWrite
    <3>2. writeEnabled' \in BOOLEAN
      BY <3>1
    <3>3. Sending' /\ Whole'
      BY <1>1, <1>2, <3>1, SendingKept, WholeKept
    <3> QED
      BY <1>1, <3>1, <3>2, <3>3 DEF TypeOK
  <2>2. CASE blocks # <<>> /\ type = "raw"
    <3>1. RawWrite(pending)
      BY <2>2 DEF FinishWrite
    <3>2. /\ Sending' /\ wire' \in Seq(Interval) /\ blocks' \in Seq(Interval)
          /\ pendingBytesWritten' \in Nat /\ writeEnabled' \in BOOLEAN /\ busy' = busy
      BY <1>1, <1>2, <2>2, <3>1, RawWriteStep
    <3>3. Whole'
      BY <1>2, <2>2 DEF Whole
    <3> QED
      BY <1>1, <3>2, <3>3 DEF TypeOK
  <2>3. CASE blocks # <<>> /\ type = "isotp"
    <3>1. IsoTpWrite(pending)
      BY <2>3 DEF FinishWrite
    <3> QED
      BY <1>1, <1>2, <2>3, <3>1, IsoTpWriteStep
  <2>4. type \in {"raw", "isotp"}
    BY <1>1, DataPathAssumption DEF TypeOK
  <2> QED
    BY <2>1, <2>2, <2>3, <2>4
<1>5. TypeOK'
  BY <1>1, <1>2, <1>4 DEF TypeOK, reading
<1> QED
  BY <1>3, <1>4, <1>5 DEF DInv

LEMMA CompleteAsyncWriteStep ==
    ASSUME DInv, CompleteAsyncWrite
    PROVE  DInv'
<1>1. TypeOK /\ Queue /\ Reading /\ Sending /\ Whole
  BY DEF DInv
<1>2. CASE pendingBytesWritten > 0 /\ ~emittedBytesWritten
  <2>1. /\ emittedBytesWritten' = TRUE
        /\ UNCHANGED <<type, reading, tail, written, ends, starts, blocks, writeEnabled,
                       pendingBytesWritten, busy, wire>>
    BY <1>2 DEF CompleteAsyncWrite
  <2>2. Delivered' = Delivered
    BY <2>1 DEF Delivered, reading
  <2>3. Queue' /\ Reading' /\ Sending' /\ Whole'
    BY <1>1, <2>1, <2>2, QueueKept, ReadingKept, SendingKept, WholeKept DEF reading
  <2>4. emittedBytesWritten' \in BOOLEAN
    BY <2>1
  <2>5. TypeOK'
    BY <1>1, <2>1, <2>4 DEF TypeOK, reading
  <2> QED
    BY <2>3, <2>5 DEF DInv
<1>3. CASE ~(pendingBytesWritten > 0 /\ ~emittedBytesWritten)
  <2>1. FinishWrite(pendingBytesWritten) /\ emittedBytesWritten' = emittedBytesWritten
    BY <1>3 DEF CompleteAsyncWrite
  <2>2. pendingBytesWritten \in Nat /\ emittedBytesWritten' \in BOOLEAN
    BY <1>1, <2>1 DEF TypeOK
  <2> QED
    BY <2>1, <2>2, FinishWriteStep
<1> QED
  BY <1>2, <1>3

LEMMA AfterBytesWrittenStep ==
    ASSUME DInv, AfterBytesWritten
    PROVE  DInv'
<1>1. emittedBytesWritten' = FALSE /\ FinishWrite(0)
  BY DEF AfterBytesWritten
<1>2. emittedBytesWritten' \in BOOLEAN /\ 0 \in Nat
  BY <1>1
<1> QED
  BY <1>1, <1>2, FinishWriteStep

LEMMA MessageSentStep ==
    ASSUME DInv, MessageSent
    PROVE  DInv'
<1>1. TypeOK /\ Queue /\ Reading /\ Sending /\ Whole
  BY DEF DInv
<1>2. /\ busy' = FALSE
      /\ UNCHANGED <<type, reading, blocks, tail, writeEnabled, pendingBytesWritten,
                     emittedBytesWritten, written, ends, starts, wire>>
  BY DEF MessageSent
<1>3. Delivered' = Delivered
  BY <1>2 DEF Delivered, reading
<1>4. Queue' /\ Reading' /\ Sending' /\ Whole'
  BY <1>1, <1>2, <1>3, QueueKept, ReadingKept, SendingKept, WholeKept DEF reading
<1>5. busy' \in BOOLEAN
  BY <1>2
<1>6. TypeOK'
  BY <1>1, <1>2, <1>5 DEF TypeOK, reading
<1> QED
  BY <1>4, <1>6 DEF DInv

LEMMA StepDInv == DInv /\ [Next]_vars => DInv'
<1> SUFFICES ASSUME DInv, [Next]_vars PROVE DInv'
  OBVIOUS
<1>1. CASE \E size \in IF type = "raw" THEN {FrameSize} ELSE MessageSizes : Arrive(size)
  BY <1>1, ArriveStep
<1>2. CASE ReadNotifierEvent
  BY <1>2, ReadNotifierEventStep
<1>3. CASE ReadAll
  BY <1>3, ReadAllStep
<1>4. CASE \E size \in BufferSizes : SetReadBufferSize(size)
  BY <1>4, SetReadBufferSizeStep
<1>5. CASE \E size \in WriteSizes : Write(size)
  BY <1>5, WriteStep
<1>6. CASE WriteNotifierEvent
  BY <1>6, CompleteAsyncWriteStep DEF WriteNotifierEvent
<1>7. CASE Flush
  BY <1>7, CompleteAsyncWriteStep DEF Flush
<1>8. CASE AfterBytesWritten
  BY <1>8, AfterBytesWrittenStep
<1>9. CASE MessageSent
  BY <1>9, MessageSentStep
<1>10. CASE UNCHANGED vars
  <2>1. TypeOK /\ Queue /\ Reading /\ Sending /\ Whole
    BY DEF DInv
  <2>2. UNCHANGED <<type, reading, sending, tail, written, ends, starts>>
    BY <1>10 DEF vars, writing
  <2>3. Delivered' = Delivered
    BY <2>2 DEF Delivered, reading
  <2>4. Queue' /\ Reading' /\ Sending' /\ Whole'
    BY <2>1, <2>2, <2>3, QueueKept, ReadingKept, SendingKept, WholeKept DEF reading, sending
  <2>5. TypeOK'
    BY <2>1, <2>2 DEF TypeOK, reading, sending
  <2> QED
    BY <2>4, <2>5 DEF DInv
<1> QED
  BY <1>1, <1>2, <1>3, <1>4, <1>5, <1>6, <1>7, <1>8, <1>9, <1>10 DEF Next

LEMMA AlwaysDInv == Spec => []DInv
<1>1. Init => DInv
  BY InitDInv
<1>2. DInv /\ [Next]_vars => DInv'
  BY StepDInv
<1> QED
  BY <1>1, <1>2, PTL DEF Spec

-----------------------------------------------------------------------------
(* Theorems *)

(* Every member keeps its type, and the queues hold intervals of bytes.    *)
THEOREM DataPathTypes == Spec => []TypeOK
<1>1. DInv => TypeOK
  BY DEF DInv
<1> QED
  BY <1>1, AlwaysDInv, PTL

(* What startAsyncWrite() has given to the interface and what waits in the *)
(* write buffer is what was written, whatever its sizes and wherever a     *)
(* round ended; a raw socket only sends frames that were written.          *)
THEOREM WireFollowsWrites == Spec => []WireIsWritten
<1>1. DInv => WireIsWritten
  BY DEF DInv, Sending, Chain, WireIsWritten
<1> QED
  BY <1>1, AlwaysDInv, PTL

(* An ISO-TP socket cuts no write, and one that finds the write buffer     *)
(* empty begins a message.                                                 *)
THEOREM WritesStayWhole == Spec => []WritesKeptWhole
<1>1. ASSUME DInv PROVE WritesKeptWhole
  <2>1. Sending /\ Whole /\ TypeOK
    BY <1>1 DEF DInv
  <2> SUFFICES ASSUME type = "isotp"
               PROVE  /\ \A i \in 1 .. Len(wire) : wire[i].to \in ends
                      /\ \A n \in starts : n <= OnWire => \E i \in 1 .. Len(wire) : wire[i].from = n
    BY DEF WritesKeptWhole
  <2>2. \A i \in 1 .. Len(wire) : wire[i].to \in ends
    BY <2>1 DEF Whole
  <2>3. ASSUME NEW n \in starts, n <= OnWire PROVE \E i \in 1 .. Len(wire) : wire[i].from = n
    <3>1. OnWire + 1 \in Nat \ {0} /\ OnWire \in Nat /\ written \in Nat
          /\ Chain(blocks, OnWire + 1, written)
      BY <2>1 DEF Sending, TypeOK
    <3>2. ASSUME NEW i \in 1 .. Len(blocks) PROVE blocks[i].from # n
      <4>1. OnWire + 1 <= blocks[i].from /\ blocks[i].from \in Nat
        BY <3>1, ChainPieces
      <4>2. n \in Nat
        BY <2>1 DEF TypeOK
      <4> QED
        BY <2>3, <3>1, <4>1, <4>2
    <3> QED
      BY <2>1, <3>2 DEF Whole
  <2> QED
    BY <2>2, <2>3
<1> QED
  BY <1>1, AlwaysDInv, PTL

(* Bytes are delivered in the order they arrived, each once, and all that  *)
(* was taken but for the ends of ISO-TP messages that were cut off.        *)
THEOREM ReceptionInOrder == Spec => []ReceivedInOrder
<1>1. ASSUME DInv PROVE ReceivedInOrder
  <2>1. Queue /\ Reading /\ TypeOK
    BY <1>1 DEF DInv
  <2>2. (IF rxQueue = <<>> THEN arrived ELSE Head(rxQueue).from - 1) = Taken
    <3>1. rxQueue # <<>> => Head(rxQueue) = rxQueue[1]
      BY <2>1, HeadTailProperties DEF TypeOK
    <3> QED
      BY <3>1 DEF Taken, TakenOf
  <2>3. Contiguous(rxQueue, Taken + 1, arrived)
    BY <2>1 DEF Queue, Chain
  <2>4. /\ \A i, j \in 1 .. Len(got \o buffer) :
             i < j => (got \o buffer)[i] < (got \o buffer)[j]
        /\ {(got \o buffer)[i] : i \in 1 .. Len(got \o buffer)} = (1 .. Taken) \ lost
    BY <2>1 DEF Reading, Delivered, Increasing, Elements
  <2> HIDE DEF Taken
  <2> QED
    BY <2>2, <2>3, <2>4, Zenon DEF ReceivedInOrder
<1> QED
  BY <1>1, AlwaysDInv, PTL

(* readNotification() cuts off the end of a message only under a limit of  *)
(* setReadBufferSize(): CAN_ISOTP_READ_CHUNK_SIZE has room for the longest *)
(* one.                                                                    *)
THEOREM OnlyLimitsCut == Spec => CutByLimitOnly
<1>1. ASSUME DInv, [Next]_vars
      PROVE  [lost' # lost => type = "isotp" /\ readBufferMaxSize # 0]_vars
  <2> SUFFICES ASSUME lost' # lost PROVE type = "isotp" /\ readBufferMaxSize # 0
    OBVIOUS
  <2>1. TypeOK /\ Queue
    BY <1>1 DEF DInv
  <2>2. ReadNotifierEvent
    <3>1. ASSUME NEW size, Arrive(size) \/ SetReadBufferSize(size) PROVE lost' = lost
      BY <3>1 DEF Arrive, SetReadBufferSize
    <3>2. ASSUME NEW size, Write(size) PROVE lost' = lost
      BY <3>2 DEF Write, reading
    <3>3. ASSUME NEW pending, FinishWrite(pending) PROVE lost' = lost
      BY <3>3 DEF FinishWrite, reading
    <3>4. CompleteAsyncWrite => lost' = lost
      BY <3>3 DEF CompleteAsyncWrite, reading
    <3>5. WriteNotifierEvent \/ Flush \/ AfterBytesWritten => lost' = lost
      BY <3>3, <3>4 DEF WriteNotifierEvent, Flush, AfterBytesWritten
    <3>6. ReadAll \/ MessageSent \/ UNCHANGED vars => lost' = lost
      BY DEF ReadAll, MessageSent, vars, reading
    <3> QED
      BY <1>1, <3>1, <3>2, <3>5, <3>6 DEF Next
  <2>3. /\ rxQueue # <<>> /\ ~Full
        /\ lost' = lost \cup (IF type = "raw" THEN RawRead(BytesToRead)
                                              ELSE IsoTpRead(BytesToRead)).cut
    BY <2>2 DEF ReadNotifierEvent
  <2>4. BytesToRead \in Int /\ (readBufferMaxSize = 0 => BytesToRead >= MaxMessage)
    BY <2>1, DataPathAssumption DEF BytesToRead, TypeOK
  <2>5. type = "raw" => RawRead(BytesToRead).cut = {}
    BY <2>1, <2>3, <2>4, RawReadTakes
  <2>6. type = "isotp" /\ readBufferMaxSize = 0 => IsoTpRead(BytesToRead).cut = {}
    BY <2>1, <2>3, <2>4, IsoTpReadTakes
  <2>7. type \in {"raw", "isotp"}
    BY <2>1, DataPathAssumption DEF TypeOK
  <2> QED
    BY <2>3, <2>5, <2>6, <2>7
<1> QED
  BY <1>1, AlwaysDInv, PTL DEF Spec, CutByLimitOnly
=============================================================================
