----------------------------- MODULE CanRawProofs -----------------------------
(***************************************************************************)
(* Theorems about a raw socket: its options, for any values and bounds;    *)
(* and the composition with the application's filter array and the frames  *)
(* that are received, for any filters and frames.                          *)
(***************************************************************************)
EXTENDS CanRawReceive, SequenceTheorems, TLAPS

-----------------------------------------------------------------------------
(* The options alone: CanRawSocket *)

AllValues == UNION {Values[o] : o \in Options}

(* The options that connectToInterface() has applied when it is at "place" *)
Applied(place) ==
    CASE place = "canFilter"              -> {}
      [] place = "errorFilterMask"        -> {"canFilter"}
      [] place = "loopback"               -> {"canFilter", "errorFilterMask"}
      [] place = "receiveOwnMessages"     -> {"canFilter", "errorFilterMask", "loopback"}
      [] place = "flexibleDataRateFrames" -> Options \ {"flexibleDataRateFrames"}
      [] OTHER                            -> Options

(* The inductive invariant.  InForce says nothing before bind(), so it has *)
(* to be extended backwards over the system calls that make it true: at    *)
(* each of them the options applied so far are in force.  FD frames are    *)
(* disabled on both sides at all times, which is why the option that is    *)
(* never applied is in force as well.                                      *)
Shapes ==
    /\ {kept, observed} \subseteq [Options -> AllValues]
    /\ kernel \in [Options -> AllValues \cup {"none"}]

AppliedInForce ==
    at \in Options \cup {"bind", "connected"} =>
        HasSocket /\ \A o \in Applied(at) : kernel[o] = kept[o]

NoFd ==
    /\ kept["flexibleDataRateFrames"] = "Disabled"
    /\ HasSocket => kernel["flexibleDataRateFrames"] = "Disabled"

IInv ==
    /\ TypeOK
    /\ Shapes
    /\ at \in {"unconnected", "connecting"} => ~HasSocket
    /\ bound => at = "connected"
    /\ NoFd
    /\ AppliedInForce
    /\ ObserverCurrent

-----------------------------------------------------------------------------
(* connectToInterface() goes through the options in the order of           *)
(* ApplyOrder, and each place extends what is applied by the option there  *)
LEMMA NextPlaceApplied ==
    ASSUME NEW o \in Options
    PROVE  /\ NextPlace(o) \in (Options \ {o}) \cup {"bind"}
           /\ Applied(NextPlace(o)) = Applied(o) \cup {o}
<1>1. Len(ApplyOrder) = 5
  BY DEF ApplyOrder
<1>2. /\ ApplyOrder[1] = "canFilter" /\ ApplyOrder[2] = "errorFilterMask"
      /\ ApplyOrder[3] = "loopback" /\ ApplyOrder[4] = "receiveOwnMessages"
      /\ ApplyOrder[5] = "flexibleDataRateFrames"
  BY DEF ApplyOrder
<1>3. /\ NextPlace("canFilter") = "errorFilterMask"
      /\ NextPlace("errorFilterMask") = "loopback"
      /\ NextPlace("loopback") = "receiveOwnMessages"
      /\ NextPlace("receiveOwnMessages") = "flexibleDataRateFrames"
      /\ NextPlace("flexibleDataRateFrames") = "bind"
  <2>1. ASSUME NEW k \in 1 .. 5
        PROVE  (CHOOSE i \in 1 .. Len(ApplyOrder) : ApplyOrder[i] = ApplyOrder[k]) = k
    BY <1>1, <1>2
  <2>2. ASSUME NEW k \in 1 .. 5
        PROVE  NextPlace(ApplyOrder[k]) = IF k = 5 THEN "bind" ELSE ApplyOrder[k + 1]
    <3>1. NextPlace(ApplyOrder[k]) =
            LET i == CHOOSE i \in 1 .. Len(ApplyOrder) : ApplyOrder[i] = ApplyOrder[k]
            IN  IF i = Len(ApplyOrder) THEN "bind" ELSE ApplyOrder[i + 1]
      BY DEF NextPlace
    <3> QED
      BY <1>1, <2>1, <3>1
  <2> QED
    BY <1>2, <2>2
<1> QED
  BY <1>3 DEF Options, Applied

(* An option once applied, whatever set it, is in force, kept and known to *)
(* the observer; the others are as they were                               *)
LEMMA ApplyEffect ==
    ASSUME IInv, HasSocket, NEW o \in Options, NEW value \in Values[o], Accepts(o, value),
           Apply(o, value)
    PROVE  /\ Shapes' /\ NoFd' /\ HasSocket' /\ ObserverCurrent'
           /\ \A p \in Options : /\ kernel'[p] \in Values[p] /\ kept'[p] \in Values[p]
                                 /\ observed'[p] \in Values[p]
           /\ kernel'[o] = kept'[o]
           /\ \A p \in Options \ {o} : kernel'[p] = kernel[p] /\ kept'[p] = kept[p]
<1>1. value \in AllValues
  BY DEF AllValues
<1>2. /\ kept \in [Options -> AllValues] /\ observed = kept
      /\ kernel \in [Options -> AllValues \cup {"none"}]
      /\ \A p \in Options : kernel[p] \in Values[p] /\ kept[p] \in Values[p]
  BY DEF IInv, Shapes, ObserverCurrent, TypeOK, HasSocket
<1>3. /\ kept["flexibleDataRateFrames"] = "Disabled"
      /\ kernel["flexibleDataRateFrames"] = "Disabled"
  BY DEF IInv, NoFd
<1>4. CASE o = "flexibleDataRateFrames"
  <2>1. UNCHANGED <<kernel, kept, observed>>
    BY <1>4 DEF Apply, Stored
  <2> QED
    BY <1>2, <1>3, <1>4, <2>1 DEF IInv, Shapes, NoFd, HasSocket, ObserverCurrent
<1>5. CASE o # "flexibleDataRateFrames"
  <2>1. /\ kernel' = [kernel EXCEPT ![o] = value]
        /\ kept' = [kept EXCEPT ![o] = value]
        /\ observed' = IF value # kept[o] THEN [observed EXCEPT ![o] = value] ELSE observed
    BY <1>5 DEF Apply, Stored
  <2>2. observed' = kept'
    BY <1>2, <2>1
  <2>3. Shapes'
    BY <1>1, <1>2, <2>1, <2>2 DEF Shapes
  <2>4. /\ kernel'[o] = value /\ kept'[o] = value
        /\ \A p \in Options \ {o} : kernel'[p] = kernel[p] /\ kept'[p] = kept[p]
    BY <1>2, <2>1
  <2>5. "flexibleDataRateFrames" \in Options \ {o}
    BY <1>5 DEF Options
  <2>6. /\ kernel'["flexibleDataRateFrames"] = "Disabled"
        /\ kept'["flexibleDataRateFrames"] = "Disabled"
    BY <1>3, <2>4, <2>5
  <2>7. kernel' # NoSocket
    BY <2>5, <2>6 DEF NoSocket
  <2> QED
    BY <1>2, <2>2, <2>3, <2>4, <2>6, <2>7 DEF NoFd, HasSocket, ObserverCurrent
<1> QED
  BY <1>4, <1>5

(* A call without a descriptor changes nothing *)
LEMMA NoSocketNoEffect ==
    ASSUME ~HasSocket, NEW o, NEW value, HasSocket \/ ~Stored(o), Apply(o, value)
    PROVE  UNCHANGED <<kernel, kept, observed>>
BY DEF Apply, HasSocket

-----------------------------------------------------------------------------
LEMMA InitIInv == Init => IInv
<1> SUFFICES ASSUME Init PROVE IInv
  OBVIOUS
<1>1. kernel = NoSocket /\ NoSocket \in [Options -> AllValues \cup {"none"}]
  BY DEF Init, NoSocket
<1>2. Default \in [Options -> AllValues] /\ \A o \in Options : Default[o] \in Values[o]
  BY OptionsAssumption DEF AllValues
<1>3. TypeOK
  <2>1. connects = 0 /\ MaxConnects \in Nat
    BY OptionsAssumption DEF Init
  <2>2. connects \in 0 .. MaxConnects
    BY <2>1
  <2>3. kept = Default /\ observed = Default /\ bound = FALSE /\ at = "unconnected"
    BY DEF Init
  <2> QED
    BY <1>1, <1>2, <2>2, <2>3 DEF TypeOK
<1>4. at = "unconnected" /\ "unconnected" \notin Options \cup {"bind", "connected"}
  BY DEF Init, Options
<1> QED
  BY <1>1, <1>2, <1>3, <1>4, OptionsAssumption
  DEF Init, IInv, Shapes, NoFd, AppliedInForce, ObserverCurrent, HasSocket

LEMMA SetOptionIInv ==
    ASSUME IInv, NEW o \in Options, NEW value \in Values[o], SetOption(o, value)
    PROVE  IInv'
<1>1. UNCHANGED <<at, bound, connects>> /\ AppRuns /\ Accepts(o, value) /\ Apply(o, value)
  BY DEF SetOption
<1>2. CASE ~HasSocket
  <2>1. UNCHANGED <<kernel, kept, observed>>
    BY <1>1, <1>2, NoSocketNoEffect DEF SetOption
  <2> QED
    BY <1>1, <2>1
    DEF IInv, TypeOK, Shapes, NoFd, AppliedInForce, ObserverCurrent, HasSocket
<1>3. CASE HasSocket
  <2>1. /\ Shapes' /\ NoFd' /\ HasSocket' /\ ObserverCurrent'
        /\ \A p \in Options : /\ kernel'[p] \in Values[p] /\ kept'[p] \in Values[p]
                              /\ observed'[p] \in Values[p]
        /\ kernel'[o] = kept'[o]
        /\ \A p \in Options \ {o} : kernel'[p] = kernel[p] /\ kept'[p] = kept[p]
    BY <1>1, <1>3, ApplyEffect
  <2>2. at \in {"connected", "error"}
    BY <1>1, <1>3 DEF AppRuns, IInv
  <2>3. AppliedInForce'
    <3>1. SUFFICES ASSUME at = "connected" PROVE \A p \in Options : kernel'[p] = kept'[p]
      BY <1>1, <2>1, <2>2 DEF AppliedInForce, Applied, Options
    <3>2. \A p \in Options : kernel[p] = kept[p]
      BY <3>1 DEF IInv, AppliedInForce, Applied
    <3> QED
      BY <2>1, <3>2
  <2>4. TypeOK'
    BY <1>1, <2>1 DEF IInv, TypeOK
  <2> QED
    BY <1>1, <2>1, <2>2, <2>3, <2>4 DEF IInv
<1> QED
  BY <1>2, <1>3

LEMMA ApplyOptionIInv ==
    ASSUME IInv, ApplyOption
    PROVE  IInv' /\ kept' = kept
<1> DEFINE o == at
<1>1. /\ o \in Options /\ Accepts(o, kept[o]) /\ Apply(o, kept[o])
      /\ at' = NextPlace(o) /\ UNCHANGED <<bound, connects>>
  BY DEF ApplyOption
<1>2. /\ kept[o] \in Values[o] /\ HasSocket /\ ~bound
      /\ \A p \in Applied(o) : kernel[p] = kept[p]
  BY <1>1 DEF IInv, TypeOK, AppliedInForce, Options
<1>3. /\ NextPlace(o) \in (Options \ {o}) \cup {"bind"}
      /\ Applied(NextPlace(o)) = Applied(o) \cup {o}
  BY <1>1, NextPlaceApplied
<1>4. /\ Shapes' /\ NoFd' /\ HasSocket' /\ ObserverCurrent'
      /\ \A p \in Options : /\ kernel'[p] \in Values[p] /\ kept'[p] \in Values[p]
                            /\ observed'[p] \in Values[p]
      /\ kernel'[o] = kept'[o]
      /\ \A p \in Options \ {o} : kernel'[p] = kernel[p] /\ kept'[p] = kept[p]
  BY <1>1, <1>2, ApplyEffect
<1>5. kept' = kept
  BY <1>1 DEF Apply, IInv, Shapes
<1>6. Applied(o) \subseteq Options
  BY <1>1 DEF Applied, Options
<1>7. \A p \in Applied(at') : kernel'[p] = kept'[p]
  BY <1>1, <1>2, <1>3, <1>4, <1>6
<1>8. TypeOK'
  BY <1>1, <1>3, <1>4 DEF IInv, TypeOK
<1>9. at' \notin {"unconnected", "connecting"}
  BY <1>1, <1>3 DEF Options
<1> QED
  BY <1>1, <1>2, <1>4, <1>5, <1>7, <1>8, <1>9 DEF IInv, AppliedInForce

LEMMA OpenSocketIInv ==
    ASSUME IInv, OpenSocket
    PROVE  IInv'
<1>1. /\ at' = "canFilter" /\ kernel' = KernelDefault /\ ~bound
      /\ UNCHANGED <<kept, bound, observed, connects>>
  BY DEF OpenSocket, ApplyOrder, IInv
<1>2. /\ KernelDefault \in [Options -> AllValues]
      /\ KernelDefault["flexibleDataRateFrames"] = "Disabled"
      /\ \A o \in Options : KernelDefault[o] \in Values[o]
  BY OptionsAssumption DEF AllValues
<1>3. "flexibleDataRateFrames" \in Options
  BY DEF Options
<1>4. KernelDefault # NoSocket
  BY <1>2, <1>3 DEF NoSocket
<1>5. TypeOK'
  BY <1>1, <1>2 DEF IInv, TypeOK, Options
<1>6. Applied("canFilter") = {}
  BY DEF Applied
<1> QED
  BY <1>1, <1>2, <1>4, <1>5, <1>6
  DEF IInv, Shapes, NoFd, AppliedInForce, ObserverCurrent, HasSocket

(* The other steps move the place and leave the options alone, or drop the *)
(* kernel socket                                                           *)
LEMMA OtherStepsIInv ==
    ASSUME IInv, Connect \/ Bind \/ CallFails \/ Disconnect \/ UNCHANGED vars
    PROVE  IInv' /\ kept' = kept
<1> USE DEF IInv
<1>p. /\ "error" \notin Options \cup {"bind", "connected", "connecting", "unconnected"}
      /\ "unconnected" \notin Options /\ "connecting" \notin Options
  BY DEF Options
<1>1. CASE Connect
  <2>1. at' = "connecting" /\ connects' = connects + 1 /\ connects < MaxConnects /\ ~HasSocket
        /\ UNCHANGED <<kept, kernel, bound, observed>> /\ ~bound
    BY <1>1 DEF Connect
  <2>2. TypeOK'
    BY <2>1, OptionsAssumption DEF TypeOK
  <2> QED
    BY <1>p, <2>1, <2>2 DEF Shapes, NoFd, AppliedInForce, ObserverCurrent, HasSocket
<1>2. CASE Bind
  <2>1. /\ at = "bind" /\ at' = "connected" /\ bound' = TRUE
        /\ UNCHANGED <<kept, kernel, observed, connects>>
    BY <1>2 DEF Bind
  <2>2. Applied("bind") = Options /\ Applied("connected") = Options
    BY DEF Applied
  <2> QED
    BY <2>1, <2>2 DEF TypeOK, Shapes, NoFd, AppliedInForce, ObserverCurrent, HasSocket
<1>3. CASE CallFails
  <2>1. at' = "error" /\ ~bound /\ UNCHANGED <<kept, kernel, bound, observed, connects>>
    BY <1>3, <1>p DEF CallFails, Options
  <2> QED
    BY <1>p, <2>1 DEF TypeOK, Shapes, NoFd, AppliedInForce, ObserverCurrent, HasSocket
<1>4. CASE Disconnect
  <2>1. /\ at' = "unconnected" /\ kernel' = NoSocket /\ bound' = FALSE
        /\ UNCHANGED <<kept, observed, connects>>
    BY <1>4 DEF Disconnect
  <2>2. NoSocket \in [Options -> AllValues \cup {"none"}]
    BY DEF NoSocket
  <2> QED
    BY <1>p, <2>1, <2>2 DEF TypeOK, Shapes, NoFd, AppliedInForce, ObserverCurrent, HasSocket
<1>5. CASE UNCHANGED vars
  BY <1>5 DEF vars, TypeOK, Shapes, NoFd, AppliedInForce, ObserverCurrent, HasSocket
<1> QED
  BY <1>1, <1>2, <1>3, <1>4, <1>5

LEMMA StepIInv == IInv /\ [Next]_vars => IInv'
BY SetOptionIInv, ApplyOptionIInv, OpenSocketIInv, OtherStepsIInv DEF Next

(* The members and the kernel's options hold values of their option in     *)
(* every reachable state (setSocketOption(), connectToInterface()).        *)
THEOREM OptionTypes == Spec => []TypeOK
<1>1. IInv => TypeOK
  BY DEF IInv
<1> QED
  BY <1>1, InitIInv, StepIInv, PTL DEF Spec

(* While frames can arrive, the kernel filters by the very options the     *)
(* getters return, however often connecting failed before and whatever was *)
(* set from the slots of error().                                          *)
THEOREM OptionsInForceWhileBound == Spec => []InForce
<1>1. IInv => InForce
  <2> SUFFICES ASSUME IInv, bound PROVE kernel = kept
    BY DEF InForce
  <2>1. at = "connected" /\ Applied("connected") = Options
    BY DEF IInv, Applied
  <2>2. \A o \in Options : kernel[o] = kept[o]
    BY <2>1 DEF IInv, AppliedInForce
  <2> QED
    BY <2>2 DEF IInv, Shapes
<1> QED
  BY <1>1, InitIInv, StepIInv, PTL DEF Spec

(* An observer of the ...Changed() signals always knows the options the    *)
(* object keeps: setSocketOption() emits one for every change.             *)
THEOREM ObserverKnowsOptions == Spec => []ObserverCurrent
<1>1. IInv => ObserverCurrent
  BY DEF IInv
<1> QED
  BY <1>1, InitIInv, StepIInv, PTL DEF Spec

(* connectToInterface() and close() never change what the object keeps,    *)
(* although the former sets each option again.                             *)
THEOREM ConnectKeepsOptions == Spec => KeptAcrossConnects
<1>1. IInv /\ [Next]_vars => [at' # at => kept' = kept]_vars
  <2> SUFFICES ASSUME IInv, Next, at' # at PROVE kept' = kept
    BY DEF vars
  <2>1. ASSUME NEW o \in Options, NEW value \in Values[o] PROVE ~SetOption(o, value)
    BY DEF SetOption
  <2>2. OpenSocket => kept' = kept
    BY DEF OpenSocket
  <2> QED
    BY <2>1, <2>2, ApplyOptionIInv, OtherStepsIInv DEF Next
<1> QED
  BY <1>1, InitIInv, StepIInv, PTL DEF Spec, KeptAcrossConnects

-----------------------------------------------------------------------------
(* The composition: CanRawReceive *)

Entry  == [no : Nat \ {0}, frame : Frames]
Stream == (got \o buffer) \o rxQueue

(* The inductive invariant.  CanRawSocket's comes with the refinement; the *)
(* array's data is the application's alone while it has a pointer to it;   *)
(* and the numbers of the frames are bounded by those that arrived, which  *)
(* is why a setter makes all frames there are old ones.                    *)
Queues ==
    /\ {rxQueue, buffer, got} \subseteq Seq(Entry)
    /\ arrivals \in 0 .. MaxArrivals /\ setAt \in 0 .. MaxArrivals
    /\ ~bound => rxQueue = <<>>

Isolated ==
    /\ array \in DOMAIN FilterOf /\ shared \in BOOLEAN /\ pointer \in BOOLEAN
    /\ ~(shared /\ pointer)

Ordered(stream, most, set) ==
    \A i \in 1 .. Len(stream) :
        /\ stream[i].no <= most
        /\ \A j \in 1 .. i - 1 : stream[j].no < stream[i].no
        /\ stream[i].no > set => Admits(kept, stream[i].frame)

RInv ==
    /\ IInv /\ Isolated /\ Queues
    /\ Ordered(Stream, arrivals, setAt)

-----------------------------------------------------------------------------
(* Frames that move on leave the stream as it is *)
LEMMA StreamType ==
    ASSUME Queues
    PROVE  /\ got \o buffer \in Seq(Entry) /\ Stream \in Seq(Entry)
           /\ Len(Stream) = Len(got \o buffer) + Len(rxQueue)
           /\ Len(got \o buffer) \in Nat /\ Len(rxQueue) \in Nat
<1>1. got \o buffer \in Seq(Entry) /\ rxQueue \in Seq(Entry)
  BY ConcatProperties DEF Queues
<1> QED
  BY <1>1, ConcatProperties, LenProperties DEF Stream

LEMMA FrontMoves ==
    ASSUME NEW S, NEW front \in Seq(S), NEW back \in Seq(S)
    PROVE  \A n \in 1 .. Len(back) :
             /\ SubSeq(back, 1, n) \in Seq(S) /\ SubSeq(back, n + 1, Len(back)) \in Seq(S)
             /\ (front \o SubSeq(back, 1, n)) \o SubSeq(back, n + 1, Len(back)) = front \o back
<1>1. Len(back) \in Nat
  BY LenProperties
<1>2. \A a, b \in Seq(S) : (front \o a) \o b = front \o (a \o b)
  BY ConcatAssociative, SMTT(60)
<1> TAKE n \in 1 .. Len(back)
<1>3. SubSeq(back, 1, n) \in Seq(S) /\ SubSeq(back, n + 1, Len(back)) \in Seq(S)
  BY <1>1, SubSeqProperties, ElementOfSeq
<1>4. SubSeq(back, 1, n) \o SubSeq(back, n + 1, Len(back)) = back
  <2>1. 1 \in 1 .. Len(back) + 1 /\ n \in 1 - 1 .. Len(back) /\ Len(back) \in n .. Len(back)
    BY <1>1
  <2>2. SubSeq(back, 1, n) \o SubSeq(back, n + 1, Len(back)) = SubSeq(back, 1, Len(back))
    BY <2>1, ConcatAdjacentSubSeq
  <2> QED
    BY <2>2, SubSeqFull
<1>5. (front \o SubSeq(back, 1, n)) \o SubSeq(back, n + 1, Len(back))
        = front \o (SubSeq(back, 1, n) \o SubSeq(back, n + 1, Len(back)))
  BY <1>2, <1>3, Zenon
<1> QED
  BY <1>3, <1>4, <1>5

LEMMA HeadMoves ==
    ASSUME NEW S, NEW s \in Seq(S), NEW t \in Seq(S), t # <<>>
    PROVE  /\ Append(s, Head(t)) \in Seq(S) /\ Tail(t) \in Seq(S)
           /\ Append(s, Head(t)) \o Tail(t) = s \o t
<1>1. Len(t) \in Nat /\ Len(t) # 0
  BY EmptySeq
<1>2. Head(t) \in S /\ Tail(t) \in Seq(S) /\ Head(t) = t[1]
  BY HeadTailProperties
<1>3. <<Head(t)>> \in Seq(S) /\ <<Head(t)>> \o Tail(t) = t
  <2>1. SubSeq(t, 1, Len(t)) = <<t[1]>> \o SubSeq(t, 2, Len(t))
    <3>1. 1 \in 1 .. Len(t) /\ Len(t) \in 1 .. Len(t)
      BY <1>1
    <3>2. SubSeq(t, 1, Len(t)) = <<t[1]>> \o SubSeq(t, 1 + 1, Len(t))
      BY <3>1, SubSeqRecursiveFirst
    <3> QED
      BY <3>2
  <2> QED
    BY <1>2, <2>1, SubSeqFull, TailIsSubSeq
<1>4. Append(s, Head(t)) = s \o <<Head(t)>>
  BY <1>2, AppendIsConcat
<1> QED
  BY <1>2, <1>3, <1>4, AppendProperties, ConcatAssociative, SMTT(60)

-----------------------------------------------------------------------------
LEMMA InitRInv == ReceiveInit => RInv
<1> SUFFICES ASSUME ReceiveInit PROVE RInv
  OBVIOUS
<1>1. IInv
  BY InitIInv DEF ReceiveInit
<1>2. Isolated
  BY DEF ReceiveInit, Isolated
<1>3. /\ rxQueue = <<>> /\ buffer = <<>> /\ got = <<>> /\ arrivals = 0 /\ setAt = 0
      /\ <<>> \in Seq(Entry)
  BY EmptySeq DEF ReceiveInit
<1>4. Queues
  BY <1>3, ReceiveAssumption DEF Queues
<1>5. Len(Stream) = 0
  <2>1. <<>> \o <<>> = <<>>
    BY <1>3, ConcatEmptySeq
  <2> QED
    BY <1>3, <2>1 DEF Stream
<1> QED
  BY <1>1, <1>2, <1>4, <1>5 DEF RInv, Ordered

(* Every step is one of the options' own, or leaves them alone: the        *)
(* refinement of CanRawSocket                                              *)
LEMMA StepOfOptions ==
    ASSUME Isolated, [ReceiveNext]_rvars
    PROVE  [Next]_vars
<1>1. ASSUME NEW filter, WriteThrough(filter) PROVE UNCHANGED vars
  <2>1. ~shared
    BY <1>1 DEF WriteThrough, Isolated
  <2> QED
    BY <1>1, <2>1 DEF WriteThrough, vars
<1>2. SetCanFilter => Next
  <2>1. "canFilter" \in Options /\ array \in Values["canFilter"]
    BY ReceiveAssumption DEF Options, Isolated
  <2> QED
    BY <2>1 DEF SetCanFilter, Next
<1>3. ASSUME NEW o \in Options, NEW value \in Values[o], SetOther(o, value) PROVE Next
  BY <1>3 DEF SetOther, Next
<1>4. (ConnectAgain \/ Connecting \/ DisconnectAll) => Next
  BY DEF ConnectAgain, Connecting, DisconnectAll, Next
<1>5. ASSUME NEW filter, AppendFilter(filter) PROVE UNCHANGED vars
  BY <1>5 DEF AppendFilter, Changed
<1>6. ASSUME NEW n, Resize(n) PROVE UNCHANGED vars
  BY <1>6 DEF Resize, Changed
<1>7. (Data \/ GetCanFilter \/ ReadNotification \/ Read \/ UNCHANGED rvars) => UNCHANGED vars
  BY DEF Data, GetCanFilter, ReadNotification, Read, rvars
<1>8. ASSUME NEW frame, Arrive(frame) PROVE UNCHANGED vars
  BY <1>8 DEF Arrive
<1> QED
  BY <1>1, <1>2, <1>3, <1>4, <1>5, <1>6, <1>7, <1>8 DEF ReceiveNext

(* The array's data is never the member's while there is a pointer to it *)
LEMMA StepIsolated ==
    ASSUME RInv, [ReceiveNext]_rvars
    PROVE  Isolated'
<1> USE DEF RInv, Isolated
<1>1. ASSUME NEW filters, Changed(filters) PROVE Isolated'
  BY <1>1 DEF Changed, Becomes
<1>2. ASSUME NEW filter, WriteThrough(filter) PROVE Isolated'
  BY <1>2 DEF WriteThrough, Becomes
<1>3. ASSUME Data PROVE Isolated'
  BY <1>3 DEF Data
<1>4. ASSUME GetCanFilter PROVE Isolated'
  <2>1. kept["canFilter"] \in DOMAIN FilterOf
    BY ReceiveAssumption DEF IInv, TypeOK, Options
  <2> QED
    BY <1>4, <2>1 DEF GetCanFilter
<1>5. UNCHANGED editing => Isolated'
  BY DEF editing
<1>6. ASSUME NEW frame, Arrive(frame) PROVE UNCHANGED editing
  BY <1>6 DEF Arrive
<1>7. ASSUME NEW o, NEW value, SetOther(o, value) PROVE UNCHANGED editing
  BY <1>7 DEF SetOther
<1>8. (SetCanFilter \/ ConnectAgain \/ Connecting \/ DisconnectAll \/ ReadNotification \/ Read
        \/ UNCHANGED rvars) => UNCHANGED editing
  BY DEF SetCanFilter, ConnectAgain, Connecting, DisconnectAll, ReadNotification, Read, rvars
<1> QED
  BY <1>1, <1>2, <1>3, <1>4, <1>5, <1>6, <1>7, <1>8 DEF ReceiveNext, AppendFilter, Resize

(* Where the stream stays, so does its order; a setter makes all of it old *)
LEMMA SameStream ==
    ASSUME RInv, Stream' = Stream, arrivals' = arrivals,
           setAt' = arrivals \/ (setAt' = setAt /\ kept' = kept)
    PROVE  Ordered(Stream, arrivals, setAt)'
<1>1. Stream \in Seq(Entry)
  BY StreamType DEF RInv
<1>2. Len(Stream) \in Nat /\ \A i \in 1 .. Len(Stream) : Stream[i].no \in Nat
  <2>1. Len(Stream) \in Nat /\ \A i \in 1 .. Len(Stream) : Stream[i] \in Entry
    BY <1>1, LenProperties, ElementOfSeq
  <2> QED
    BY <2>1 DEF Entry
<1>3. arrivals \in Nat
  BY ReceiveAssumption DEF RInv, Queues
<1>4. CASE setAt' = arrivals
  BY <1>2, <1>3, <1>4 DEF RInv, Ordered
<1>5. CASE setAt' = setAt /\ kept' = kept
  BY <1>5 DEF RInv, Ordered, Admits
<1> QED
  BY <1>4, <1>5

LEMMA ArriveRInv ==
    ASSUME RInv, NEW frame \in Frames, Arrive(frame)
    PROVE  Queues' /\ Ordered(Stream, arrivals, setAt)'
<1> DEFINE entry == [no |-> arrivals + 1, frame |-> frame]
<1>1. /\ bound /\ arrivals < MaxArrivals /\ arrivals' = arrivals + 1
      /\ rxQueue' = Append(rxQueue, entry) /\ Admits(kernel, frame)
      /\ UNCHANGED <<vars, editing, buffer, got, setAt>>
  BY DEF Arrive
<1>2. arrivals \in Nat /\ entry \in Entry /\ rxQueue \in Seq(Entry) /\ got \o buffer \in Seq(Entry)
  BY ReceiveAssumption, StreamType DEF RInv, Queues, Entry
<1>3. Queues'
  BY <1>1, <1>2, AppendProperties, ReceiveAssumption DEF RInv, Queues, vars
<1>4. Admits(kept, frame)
  <2>1. at = "connected" /\ Applied("connected") = Options
    BY <1>1 DEF RInv, IInv, Applied
  <2>2. kernel = kept
    BY <2>1 DEF RInv, IInv, AppliedInForce, Shapes
  <2> QED
    BY <1>1, <2>2
<1>5. Stream' = Append(Stream, entry)
  <2>1. /\ Append(rxQueue, entry) = rxQueue \o <<entry>> /\ <<entry>> \in Seq(Entry)
        /\ Append(Stream, entry) = Stream \o <<entry>>
    BY <1>2, AppendIsConcat, StreamType DEF RInv
  <2>2. Stream' = (got \o buffer) \o Append(rxQueue, entry)
    BY <1>1 DEF Stream
  <2> HIDE DEF entry
  <2>3. (got \o buffer) \o (rxQueue \o <<entry>>) = ((got \o buffer) \o rxQueue) \o <<entry>>
    BY <1>2, <2>1, ConcatAssociative, SMTT(60)
  <2> QED
    BY <2>1, <2>2, <2>3 DEF Stream
<1>6. /\ Stream \in Seq(Entry) /\ Len(Stream) \in Nat /\ Len(Stream') = Len(Stream) + 1
      /\ \A i \in 1 .. Len(Stream) : Stream'[i] = Stream[i] /\ Stream[i].no \in Nat
      /\ Stream'[Len(Stream) + 1] = entry
  <2>1. Stream \in Seq(Entry)
    BY StreamType DEF RInv
  <2>2. \A i \in 1 .. Len(Stream) : Stream[i].no \in Nat
    <3>1. \A i \in 1 .. Len(Stream) : Stream[i] \in Entry
      BY <2>1, ElementOfSeq
    <3> QED
      BY <3>1 DEF Entry
  <2> QED
    BY <1>2, <1>5, <2>1, <2>2, AppendProperties, LenProperties
<1>7. kept' = kept
  BY <1>1 DEF vars
<1>8. ASSUME NEW i \in 1 .. Len(Stream')
      PROVE  /\ Stream'[i].no <= arrivals + 1
             /\ \A j \in 1 .. i - 1 : Stream'[j].no < Stream'[i].no
             /\ Stream'[i].no > setAt => Admits(kept, Stream'[i].frame)
  <2>1. CASE i = Len(Stream) + 1
    <3>1. Stream'[i].no = arrivals + 1 /\ Stream'[i].frame = frame
      BY <1>6, <2>1
    <3>2. \A j \in 1 .. i - 1 : Stream'[j].no <= arrivals
      BY <1>6, <2>1 DEF RInv, Ordered
    <3>3. \A j \in 1 .. i - 1 : Stream'[j].no \in Nat
      BY <1>6, <2>1
    <3> QED
      BY <1>2, <1>4, <3>1, <3>2, <3>3
  <2>2. CASE i \in 1 .. Len(Stream)
    <3>1. \A j \in 1 .. i : j \in 1 .. Len(Stream) /\ Stream'[j] = Stream[j]
      BY <1>6, <2>2
    <3>2. Stream[i].no \in Nat /\ Stream[i].no <= arrivals
      BY <1>6, <2>2 DEF RInv, Ordered
    <3> QED
      BY <1>2, <2>2, <3>1, <3>2 DEF RInv, Ordered
  <2> QED
    BY <1>6, <2>1, <2>2
<1>9. Ordered(Stream, arrivals, setAt)'
  BY <1>1, <1>7, <1>8 DEF Ordered, Admits
<1> QED
  BY <1>3, <1>9

(* Reading: the stream is the same *)
LEMMA ReadRInv ==
    ASSUME RInv, ReadNotification \/ Read
    PROVE  Queues' /\ Ordered(Stream, arrivals, setAt)'
<1>1. {got, buffer, rxQueue} \subseteq Seq(Entry) /\ got \o buffer \in Seq(Entry)
  BY StreamType DEF RInv, Queues
<1>2. CASE ReadNotification
  <2>1. PICK n \in 1 .. Len(rxQueue) :
            /\ buffer' = buffer \o SubSeq(rxQueue, 1, n)
            /\ rxQueue' = SubSeq(rxQueue, n + 1, Len(rxQueue))
    BY <1>2 DEF ReadNotification
  <2>2. /\ at = "connected" /\ UNCHANGED <<vars, editing, got, arrivals, setAt>>
        /\ rxQueue # <<>>
    BY <1>2 DEF ReadNotification
  <2>3. /\ SubSeq(rxQueue, 1, n) \in Seq(Entry) /\ rxQueue' \in Seq(Entry)
        /\ ((got \o buffer) \o SubSeq(rxQueue, 1, n)) \o rxQueue' = Stream
    BY <1>1, <2>1, FrontMoves DEF Stream
  <2>4. buffer' \in Seq(Entry)
    BY <1>1, <2>1, <2>3, ConcatProperties
  <2>5. got \o buffer' = (got \o buffer) \o SubSeq(rxQueue, 1, n)
    <3>1. \A a \in Seq(Entry) : (got \o buffer) \o a = got \o (buffer \o a)
      BY <1>1, ConcatAssociative, SMTT(60)
    <3> QED
      BY <2>1, <2>3, <3>1
  <2>6. Stream' = Stream
    BY <2>2, <2>3, <2>5 DEF Stream
  <2>7. bound
    BY <2>2 DEF RInv, Queues
  <2>8. Queues'
    BY <2>2, <2>3, <2>4, <2>7 DEF RInv, Queues, vars
  <2>9. kept' = kept
    BY <2>2 DEF vars
  <2> QED
    BY <2>2, <2>6, <2>8, <2>9, SameStream
<1>3. CASE Read
  <2>1. /\ buffer # <<>> /\ got' = Append(got, Head(buffer)) /\ buffer' = Tail(buffer)
        /\ UNCHANGED <<vars, editing, rxQueue, arrivals, setAt>>
    BY <1>3 DEF Read
  <2>2. /\ got' \in Seq(Entry) /\ buffer' \in Seq(Entry) /\ got' \o buffer' = got \o buffer
    BY <1>1, <2>1, HeadMoves
  <2>3. Stream' = Stream
    BY <2>1, <2>2 DEF Stream
  <2>4. Queues'
    BY <2>1, <2>2 DEF RInv, Queues, vars
  <2>5. kept' = kept
    BY <2>1 DEF vars
  <2> QED
    BY <2>1, <2>3, <2>4, <2>5, SameStream
<1> QED
  BY <1>2, <1>3

(* Connecting starts a new stream; closing cuts it *)
LEMMA ConnectionRInv ==
    ASSUME RInv, ConnectAgain \/ DisconnectAll
    PROVE  Queues' /\ Ordered(Stream, arrivals, setAt)'
<1>e. <<>> \in Seq(Entry) /\ Len(<<>>) = 0
  BY EmptySeq
<1>1. CASE ConnectAgain
  <2>1. /\ buffer' = <<>> /\ got' = <<>> /\ arrivals' = 0 /\ setAt' = 0 /\ rxQueue' = rxQueue
        /\ at = "unconnected" /\ bound' = bound
    BY <1>1 DEF ConnectAgain, Connect
  <2>2. ~bound
    BY <2>1 DEF RInv, IInv
  <2>3. rxQueue' = <<>>
    BY <2>1, <2>2 DEF RInv, Queues
  <2>4. Queues'
    BY <1>e, <2>1, <2>3, ReceiveAssumption DEF Queues
  <2>5. Len(Stream') = 0
    <3>1. <<>> \o <<>> = <<>>
      BY <1>e, ConcatEmptySeq
    <3> QED
      BY <1>e, <2>1, <2>3, <3>1 DEF Stream
  <2>6. Ordered(Stream, arrivals, setAt)'
    BY <2>5 DEF Ordered
  <2> QED
    BY <2>4, <2>6
<1>2. CASE DisconnectAll
  <2>1. rxQueue' = <<>> /\ UNCHANGED <<buffer, got, arrivals, setAt, kept>>
    BY <1>2 DEF DisconnectAll, Disconnect
  <2>2. Queues'
    BY <1>e, <2>1 DEF RInv, Queues
  <2>3. /\ got \o buffer \in Seq(Entry) /\ rxQueue \in Seq(Entry)
        /\ Len(Stream) = Len(got \o buffer) + Len(rxQueue)
        /\ Len(got \o buffer) \in Nat /\ Len(rxQueue) \in Nat
    BY StreamType DEF RInv, Queues
  <2>4. Stream' = got \o buffer
    BY <2>1, <2>3, ConcatEmptySeq DEF Stream
  <2>5. \A i \in 1 .. Len(got \o buffer) :
            i \in 1 .. Len(Stream) /\ Stream[i] = (got \o buffer)[i]
    BY <2>3, ConcatProperties DEF Stream
  <2>6. ASSUME NEW i \in 1 .. Len(Stream')
        PROVE  /\ Stream'[i].no <= arrivals
               /\ \A j \in 1 .. i - 1 : Stream'[j].no < Stream'[i].no
               /\ Stream'[i].no > setAt => Admits(kept, Stream'[i].frame)
    <3>1. \A j \in 1 .. i : j \in 1 .. Len(Stream) /\ Stream'[j] = Stream[j]
      BY <2>3, <2>4, <2>5
    <3> QED
      BY <3>1 DEF RInv, Ordered
  <2>7. Ordered(Stream, arrivals, setAt)'
    BY <2>1, <2>6 DEF Ordered, Admits
  <2> QED
    BY <2>2, <2>7
<1> QED
  BY <1>1, <1>2

(* Steps that leave the frames alone *)
LEMMA QuietRInv ==
    ASSUME RInv, UNCHANGED receiving, bound' = bound \/ bound',
           setAt' = arrivals \/ (setAt' = setAt /\ kept' = kept)
    PROVE  Queues' /\ Ordered(Stream, arrivals, setAt)'
<1>1. UNCHANGED <<rxQueue, buffer, got, arrivals>>
  BY DEF receiving
<1>2. Stream' = Stream
  BY <1>1 DEF Stream
<1>3. Queues'
  BY <1>1 DEF RInv, Queues
<1> QED
  BY <1>1, <1>2, <1>3, SameStream

LEMMA StepRInv == RInv /\ [ReceiveNext]_rvars => RInv'
<1> SUFFICES ASSUME RInv, [ReceiveNext]_rvars PROVE RInv'
  OBVIOUS
<1>1. IInv' /\ Isolated'
  BY StepOfOptions, StepIInv, StepIsolated DEF RInv
<1>2. ASSUME NEW filters, Changed(filters) PROVE Queues' /\ Ordered(Stream, arrivals, setAt)'
  BY <1>2, QuietRInv DEF Changed, vars
<1>3. ASSUME NEW filter, WriteThrough(filter)
      PROVE  Queues' /\ Ordered(Stream, arrivals, setAt)'
  <2>1. ~shared
    BY <1>3 DEF WriteThrough, RInv, Isolated
  <2> QED
    BY <1>3, <2>1, QuietRInv DEF WriteThrough
<1>4. ASSUME Data \/ GetCanFilter PROVE Queues' /\ Ordered(Stream, arrivals, setAt)'
  BY <1>4, QuietRInv DEF Data, GetCanFilter, vars
<1>5. ASSUME NEW o, NEW value, SetCanFilter \/ SetOther(o, value)
      PROVE  Queues' /\ Ordered(Stream, arrivals, setAt)'
  BY <1>5, QuietRInv DEF SetCanFilter, SetOther, SetOption
<1>6. ASSUME Connecting PROVE Queues' /\ Ordered(Stream, arrivals, setAt)'
  <2>1. UNCHANGED <<receiving, setAt>> /\ (bound' = bound \/ bound')
    BY <1>6 DEF Connecting, OpenSocket, ApplyOption, Bind, CallFails
  <2>2. kept' = kept
    <3>1. OpenSocket => kept' = kept
      BY DEF OpenSocket
    <3> QED
      BY <1>6, <3>1, ApplyOptionIInv, OtherStepsIInv DEF Connecting, RInv
  <2> QED
    BY <2>1, <2>2, QuietRInv
<1>7. ASSUME UNCHANGED rvars PROVE Queues' /\ Ordered(Stream, arrivals, setAt)'
  BY <1>7, QuietRInv DEF rvars, vars
<1>8. Queues' /\ Ordered(Stream, arrivals, setAt)'
  BY <1>2, <1>3, <1>4, <1>5, <1>6, <1>7, ArriveRInv, ReadRInv, ConnectionRInv
  DEF ReceiveNext, AppendFilter, Resize
<1> QED
  BY <1>1, <1>8 DEF RInv

LEMMA Invariance == ReceiveSpec => []RInv
BY InitRInv, StepRInv, PTL DEF ReceiveSpec

(* The options behave as CanRawSocket says, whatever the application does  *)
(* to its filter array, also through a pointer into it: setSocketOption()  *)
(* takes a copy with data of its own.                                      *)
THEOREM ReceiveImplementsOptions == ReceiveSpec => OptionsUntouched
<1>1. ReceiveInit => Init
  BY DEF ReceiveInit
<1>2. RInv /\ [ReceiveNext]_rvars => [Next]_vars
  BY StepOfOptions DEF RInv
<1> QED
  BY <1>1, <1>2, Invariance, PTL DEF ReceiveSpec, OptionsUntouched, Spec

(* The members, queues and counters keep their types.                      *)
THEOREM ReceiveTypes == ReceiveSpec => []ReceiveTypeOK
<1>1. RInv => ReceiveTypeOK
  BY DEF RInv, IInv, Isolated, Queues, Entry, ReceiveTypeOK
<1> QED
  BY <1>1, Invariance, PTL

(* In what the application reads, the frames a new filter let through come *)
(* after all those of the old one, and from there on every frame passes    *)
(* the options the getters return (readNotification(), setSocketOption(),  *)
(* connectToInterface() together).                                         *)
THEOREM NewFilterFollowsOld == ReceiveSpec => []NewFilterAfterOld
<1>1. RInv => NewFilterAfterOld
  BY DEF RInv, Ordered, Stream, NewFilterAfterOld
<1> QED
  BY <1>1, Invariance, PTL
=============================================================================
