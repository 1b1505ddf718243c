------------------------- MODULE CanIsoTpSocketProofs -------------------------
(***************************************************************************)
(* Theorems about the identifiers and options of CanIsoTpSocket, for any   *)
(* identifiers, option values and number of connections.                   *)
(***************************************************************************)
EXTENDS CanIsoTpSocket, TLAPS

KernelOptions == Structured \cup {"txStMin"}
OptionPlaces  == Structured \cup Times

(* The options that connectToInterface() has applied when it is at "place" *)
Applied(place) ==
    CASE place = "isoTpOptions"       -> {}
      [] place = "flowControlOptions" -> {"isoTpOptions"}
      [] place = "txMinSepTime"       -> {"isoTpOptions", "flowControlOptions"}
      [] place = "rxMinSepTime"       -> {"isoTpOptions", "flowControlOptions", "txMinSepTime"}
      [] place = "linkLayerOptions"   -> {"isoTpOptions", "flowControlOptions"} \cup Times
      [] place = "connecting"         -> {}
      [] OTHER                        -> Structured \cup Times

(* The inductive invariant.  Each part says of the places before bind()    *)
(* what the properties say of a connected socket: which options are in     *)
(* force already, and that those still to be applied are as they were set. *)
Shapes ==
    /\ kernel \in [KernelOptions -> StructValues \cup SepTimes \cup {"none"}]
    /\ at \in {"unconnected", "connecting"} => ~HasSocket
    /\ at \in OptionPlaces \cup {"bind", "connected"} =>
            /\ \A o \in Structured : kernel[o] \in StructValues
            /\ kernel["txStMin"] \in SepTimes

AddressPrepared ==
    at \in OptionPlaces \cup {"bind", "connected"} =>
        \A o \in Ids \ disturbed : address[o] = ids[o]

(* connectToInterface() sets both times to 0, the second over the first    *)
SepTimeApplied ==
    disturbed \cap Times = {} =>
        /\ at = "rxMinSepTime" => times["txMinSepTime"] = 0
        /\ at \in {"linkLayerOptions", "bind", "connected"} =>
                kernel["txStMin"] = times["txMinSepTime"]

(* Before the first connection no structure can be set, and until it is    *)
(* applied its pointer is the one the constructor made.                    *)
FirstApplied ==
    /\ connects = 0 => at = "unconnected" /\ structs = written
    /\ connects = 1 =>
        \A o \in Structured \ disturbed :
            /\ at \in OptionPlaces \cup {"connecting"} /\ o \notin Applied(at) =>
                    structs[o] = written[o]
            /\ at \in OptionPlaces \cup {"bind", "connected"} /\ o \in Applied(at) =>
                    kernel[o] = written[o]

IInv ==
    /\ TypeOK
    /\ Shapes
    /\ AddressPrepared
    /\ SepTimeApplied
    /\ FirstApplied

-----------------------------------------------------------------------------
(* connectToInterface() goes through the options in the order of           *)
(* ApplyOrder, and each place extends what is applied by the option there  *)
LEMMA NextPlaceApplied ==
    ASSUME NEW o \in OptionPlaces
    PROVE  /\ NextPlace(o) \in (OptionPlaces \ {o}) \cup {"bind"}
           /\ Applied(NextPlace(o)) = Applied(o) \cup {o}
           /\ o \notin Applied(o)
           /\ NextPlace(o) = "rxMinSepTime" => o = "txMinSepTime"
           /\ NextPlace(o) = "linkLayerOptions" => o = "rxMinSepTime"
           /\ NextPlace(o) = "bind" => o = "linkLayerOptions"
<1>1. Len(ApplyOrder) = 5
  BY DEF ApplyOrder
<1>2. /\ ApplyOrder[1] = "isoTpOptions" /\ ApplyOrder[2] = "flowControlOptions"
      /\ ApplyOrder[3] = "txMinSepTime" /\ ApplyOrder[4] = "rxMinSepTime"
      /\ ApplyOrder[5] = "linkLayerOptions"
  BY DEF ApplyOrder
<1>3. /\ NextPlace("isoTpOptions") = "flowControlOptions"
      /\ NextPlace("flowControlOptions") = "txMinSepTime"
      /\ NextPlace("txMinSepTime") = "rxMinSepTime"
      /\ NextPlace("rxMinSepTime") = "linkLayerOptions"
      /\ NextPlace("linkLayerOptions") = "bind"
  <2>1. ASSUME NEW k \in 1 .. 5
        PROVE  (CHOOSE i \in 1 .. Len(ApplyOrder) : ApplyOrder[i] = ApplyOrder[k]) = k
    BY <1>1, <1>2
  <2>2. ASSUME NEW k \in 1 .. 5
        PROVE  NextPlace(ApplyOrder[k]) = IF k = 5 THEN "bind" ELSE ApplyOrder[k + 1]
    <3>1. NextPlace(ApplyOrder[k]) =
            LET i == CHOOSE i \in 1 .. Len(ApplyOrder) : ApplyOrder[i] = ApplyOrder[k]
            IN  IF i = Len(ApplyOrder) THEN "bind" ELSE ApplyOrder[i + 1]
      BY DEF NextPlace
    <3> QED
      BY <1>1, <2>1, <3>1
  <2> QED
    BY <1>2, <2>2
<1> QED
  BY <1>3 DEF OptionPlaces, Structured, Times, Applied

(* The places are those of the program text *)
LEMMA PlacesAre ==
    /\ Places = OptionPlaces \cup {"unconnected", "connecting", "bind", "connected", "error"}
    /\ OptionPlaces \cap {"unconnected", "connecting", "bind", "connected", "error"} = {}
<1>1. Len(ApplyOrder) = 5
  BY DEF ApplyOrder
<1>2. /\ ApplyOrder[1] = "isoTpOptions" /\ ApplyOrder[2] = "flowControlOptions"
      /\ ApplyOrder[3] = "txMinSepTime" /\ ApplyOrder[4] = "rxMinSepTime"
      /\ ApplyOrder[5] = "linkLayerOptions"
  BY DEF ApplyOrder
<1>3. {ApplyOrder[i] : i \in 1 .. Len(ApplyOrder)} = OptionPlaces
  BY <1>1, <1>2 DEF OptionPlaces, Structured, Times
<1> QED
  BY <1>3 DEF Places, OptionPlaces, Structured, Times

(* What Apply does to the object and to the kernel socket *)
LEMMA ApplyEffect ==
    ASSUME TypeOK, kernel \in [KernelOptions -> StructValues \cup SepTimes \cup {"none"}],
           \A p \in Structured : kernel[p] \in StructValues,
           kernel["txStMin"] \in SepTimes,
           NEW o \in OptionPlaces,
           NEW value, value \in IF o \in Structured THEN StructValues ELSE SepTimes,
           Apply(o, value)
    PROVE  /\ kernel' \in [KernelOptions -> StructValues \cup SepTimes \cup {"none"}]
           /\ \A p \in Structured : kernel'[p] \in StructValues
           /\ kernel'["txStMin"] \in SepTimes
           /\ structs' \in [Structured -> StructValues \cup {Dangling}]
           /\ times' \in [Times -> SepTimes]
           /\ \A p \in Structured \ {o} : kernel'[p] = kernel[p] /\ structs'[p] = structs[p]
           /\ o \in Structured => /\ kernel'[o] = value
                                  /\ kernel'["txStMin"] = kernel["txStMin"]
                                  /\ times' = times
           /\ o \in Times => /\ kernel'["txStMin"] = value /\ times'[o] = value
                             /\ \A p \in Times \ {o} : times'[p] = times[p]
<1> USE DEF OptionPlaces, KernelOptions, KernelOption, Apply, TypeOK
<1>1. CASE o \in Structured
  <2>1. o \notin Times /\ "txStMin" \notin Structured
    BY <1>1 DEF Structured, Times
  <2> QED
    BY <1>1, <2>1
<1>2. CASE o \in Times
  <2>1. o \notin Structured /\ "txStMin" \notin Structured
    BY <1>2 DEF Structured, Times
  <2> QED
    BY <1>2, <2>1
<1> QED
  BY <1>1, <1>2

-----------------------------------------------------------------------------
LEMMA InitIInv == Init => IInv
<1> SUFFICES ASSUME Init PROVE IInv
  OBVIOUS
<1>1. /\ at = "unconnected" /\ slot = FALSE /\ connects = 0 /\ disturbed = {}
      /\ ids = [i \in Ids |-> 0] /\ address = ids /\ times = [o \in Times |-> 0]
      /\ structs = [o \in Structured |-> "default"] /\ written = structs
      /\ kernel = NoSocket
  BY DEF Init
<1>2. TypeOK
  <2>1. MaxConnects \in Nat /\ 0 \in CanIds /\ 0 \in SepTimes /\ "default" \in StructValues
    BY IsoTpAssumption
  <2>2. connects \in 0 .. MaxConnects
    BY <1>1, <2>1
  <2> QED
    BY <1>1, <2>1, <2>2, PlacesAre DEF TypeOK, HasSocket
<1>3. NoSocket \in [KernelOptions -> StructValues \cup SepTimes \cup {"none"}]
  BY DEF NoSocket, KernelOptions
<1>4. Shapes
  BY <1>1, <1>3, PlacesAre DEF Shapes, HasSocket
<1> QED
  BY <1>1, <1>2, <1>4, PlacesAre DEF IInv, AddressPrepared, SepTimeApplied, FirstApplied

LEMMA SetOptionIInv ==
    ASSUME IInv, NEW o \in OptionPlaces,
           NEW value, value \in IF o \in Structured THEN StructValues ELSE SepTimes,
           SetOption(o, value)
    PROVE  IInv'
<1>1. /\ AppRuns /\ HasSocket /\ Apply(o, value)
      /\ written' = IF o \in Structured THEN [written EXCEPT ![o] = value] ELSE written
      /\ disturbed' = IF InConnect \/ o = "rxMinSepTime" THEN disturbed \cup {o} ELSE disturbed
      /\ UNCHANGED <<at, slot, ids, address, connects>>
  BY DEF SetOption
<1>2. /\ kernel \in [KernelOptions -> StructValues \cup SepTimes \cup {"none"}]
      /\ \A p \in Structured : kernel[p] \in StructValues
      /\ kernel["txStMin"] \in SepTimes
      /\ at \notin {"unconnected", "connecting"}
  BY <1>1 DEF IInv, Shapes, TypeOK
<1>3. /\ kernel' \in [KernelOptions -> StructValues \cup SepTimes \cup {"none"}]
      /\ \A p \in Structured : kernel'[p] \in StructValues
      /\ kernel'["txStMin"] \in SepTimes
      /\ structs' \in [Structured -> StructValues \cup {Dangling}]
      /\ times' \in [Times -> SepTimes]
      /\ \A p \in Structured \ {o} : kernel'[p] = kernel[p] /\ structs'[p] = structs[p]
      /\ o \in Structured => /\ kernel'[o] = value
                             /\ kernel'["txStMin"] = kernel["txStMin"]
                             /\ times' = times
      /\ o \in Times => /\ kernel'["txStMin"] = value /\ times'[o] = value
                        /\ \A p \in Times \ {o} : times'[p] = times[p]
  BY <1>1, <1>2, ApplyEffect DEF IInv
<1>4. /\ written \in [Structured -> StructValues]
      /\ disturbed \subseteq disturbed' /\ disturbed' \subseteq disturbed \cup {o}
      /\ at # "connected" => o \in disturbed'
      /\ o = "rxMinSepTime" => o \in disturbed'
  BY <1>1, <1>2 DEF IInv, TypeOK, InConnect
<1>5. /\ written' \in [Structured -> StructValues]
      /\ \A p \in Structured \ {o} : written'[p] = written[p]
      /\ o \in Structured => written'[o] = value
  BY <1>1, <1>4
<1>6. TypeOK'
  BY <1>1, <1>3, <1>4, <1>5 DEF IInv, TypeOK, OptionPlaces
<1>7. Shapes'
  BY <1>1, <1>2, <1>3 DEF Shapes
<1>8. AddressPrepared'
  BY <1>1, <1>4 DEF IInv, AddressPrepared
<1>9. SepTimeApplied'
  <2> SUFFICES ASSUME disturbed' \cap Times = {} PROVE SepTimeApplied'
    BY DEF SepTimeApplied
  <2>1. CASE o \in Structured
    BY <1>1, <1>3, <1>4, <2>1 DEF IInv, SepTimeApplied
  <2>2. CASE o \in Times
    <3>1. o = "txMinSepTime" /\ at = "connected"
      BY <1>4, <2>2 DEF Times
    <3> QED
      BY <1>1, <1>3, <2>2, <3>1 DEF SepTimeApplied
  <2> QED
    BY <2>1, <2>2 DEF OptionPlaces
<1>10. FirstApplied'
  <2>1. connects' # 0
    BY <1>1, <1>2 DEF IInv, FirstApplied
  <2>2. SUFFICES ASSUME connects = 1, NEW p \in Structured \ disturbed'
        PROVE  /\ at \in OptionPlaces \cup {"connecting"} /\ p \notin Applied(at) =>
                        structs'[p] = written'[p]
               /\ at \in OptionPlaces \cup {"bind", "connected"} /\ p \in Applied(at) =>
                        kernel'[p] = written'[p]
    BY <1>1, <2>1 DEF FirstApplied
  <2>3. CASE p = o
    BY <1>3, <1>4, <1>5, <2>3, PlacesAre
  <2>4. CASE p # o
    BY <1>3, <1>4, <1>5, <2>2, <2>4 DEF IInv, FirstApplied
  <2> QED
    BY <2>3, <2>4
<1> QED
  BY <1>6, <1>7, <1>8, <1>9, <1>10 DEF IInv

(* An identifier that is set is not covered by the address any more, unless *)
(* there is none yet                                                       *)
LEMMA SetIdIInv ==
    ASSUME IInv, NEW o \in Ids, NEW id \in CanIds, SetId(o, id) \/ SetIdOption(o, id)
    PROVE  IInv'
<1>1. /\ ids' = [ids EXCEPT ![o] = id]
      /\ UNCHANGED <<at, slot, address, structs, times, kernel, connects, written>>
      /\ disturbed \subseteq disturbed' /\ disturbed' \subseteq disturbed \cup {o}
      /\ at \notin {"unconnected", "connecting"} => o \in disturbed'
  BY DEF SetId, SetIdOption
<1>2. o \notin OptionPlaces
  BY DEF Ids, OptionPlaces, Structured, Times
<1>3. TypeOK'
  BY <1>1 DEF IInv, TypeOK, HasSocket
<1>4. AddressPrepared'
  BY <1>1, PlacesAre DEF IInv, TypeOK, AddressPrepared
<1>5. Shapes'
  BY <1>1 DEF IInv, Shapes, HasSocket
<1>6. disturbed' \cap OptionPlaces = disturbed \cap OptionPlaces
  BY <1>1, <1>2
<1>7. SepTimeApplied'
  BY <1>1, <1>6 DEF IInv, SepTimeApplied, OptionPlaces
<1>8. FirstApplied'
  BY <1>1, <1>6 DEF IInv, FirstApplied, OptionPlaces
<1> QED
  BY <1>3, <1>4, <1>5, <1>7, <1>8 DEF IInv

LEMMA ApplyOptionIInv ==
    ASSUME IInv, ApplyOption
    PROVE  IInv'
<1> DEFINE o == at
<1>1. o \in OptionPlaces
  BY DEF ApplyOption, OptionPlaces
<1>2. PICK value \in IF o \in Structured THEN Readings(o) ELSE {0} :
        Apply(o, value) /\ slot' = Announces(o, value)
  BY DEF ApplyOption
<1>3. at' = NextPlace(o) /\ UNCHANGED <<ids, address, connects, written, disturbed>>
  BY DEF ApplyOption
<1>4. /\ value \in IF o \in Structured THEN StructValues ELSE SepTimes
      /\ o \in Structured /\ structs[o] \in StructValues => value = structs[o]
  <2>1. structs \in [Structured -> StructValues \cup {Dangling}] /\ Dangling \notin StructValues
        /\ 0 \in SepTimes
    BY IsoTpAssumption DEF IInv, TypeOK
  <2> QED
    BY <1>2, <2>1 DEF Readings
<1>5. /\ kernel' \in [KernelOptions -> StructValues \cup SepTimes \cup {"none"}]
      /\ \A p \in Structured : kernel'[p] \in StructValues
      /\ kernel'["txStMin"] \in SepTimes
      /\ structs' \in [Structured -> StructValues \cup {Dangling}]
      /\ times' \in [Times -> SepTimes]
      /\ \A p \in Structured \ {o} : kernel'[p] = kernel[p] /\ structs'[p] = structs[p]
      /\ o \in Structured => /\ kernel'[o] = value
                             /\ kernel'["txStMin"] = kernel["txStMin"]
                             /\ times' = times
      /\ o \in Times => /\ kernel'["txStMin"] = value /\ times'[o] = value
                        /\ \A p \in Times \ {o} : times'[p] = times[p]
  BY <1>1, <1>2, <1>4, ApplyEffect DEF IInv, Shapes
<1>6. /\ NextPlace(o) \in (OptionPlaces \ {o}) \cup {"bind"}
      /\ Applied(NextPlace(o)) = Applied(o) \cup {o}
      /\ o \notin Applied(o)
      /\ NextPlace(o) = "rxMinSepTime" => o = "txMinSepTime"
      /\ NextPlace(o) = "linkLayerOptions" => o = "rxMinSepTime"
      /\ NextPlace(o) = "bind" => o = "linkLayerOptions"
  BY <1>1, NextPlaceApplied
<1>7. TypeOK'
  <2>1. slot' \in BOOLEAN
    BY <1>2 DEF Announces
  <2>2. at' \in Places
    BY <1>3, <1>6, PlacesAre
  <2> QED
    BY <1>3, <1>5, <2>1, <2>2 DEF IInv, TypeOK
<1>8. Shapes'
  BY <1>3, <1>5, <1>6, PlacesAre DEF Shapes
<1>9. AddressPrepared'
  BY <1>1, <1>3 DEF IInv, AddressPrepared
<1>10. SepTimeApplied'
  <2> SUFFICES ASSUME disturbed \cap Times = {} PROVE SepTimeApplied'
    BY <1>3 DEF SepTimeApplied
  <2>1. CASE o \in Structured
    <3>1. o \notin Times
      BY <2>1 DEF Structured, Times
    <3>2. at' # "rxMinSepTime"
      BY <1>3, <1>6, <3>1 DEF Times
    <3>3. at' \in {"linkLayerOptions", "bind"} => at = "linkLayerOptions"
      BY <1>3, <1>6, <3>1 DEF Times
    <3> QED
      BY <1>3, <1>5, <1>6, <2>1, <3>2, <3>3, PlacesAre DEF IInv, SepTimeApplied
  <2>2. CASE o = "txMinSepTime"
    <3>1. value = 0 /\ o \in Times
      BY <1>2, <2>2 DEF Structured, Times
    <3>2. at' \notin {"linkLayerOptions", "bind", "connected"}
      BY <1>3, <1>6, <2>2, PlacesAre
    <3> QED
      BY <1>5, <2>2, <3>1, <3>2 DEF SepTimeApplied
  <2>3. CASE o = "rxMinSepTime"
    <3>1. value = 0 /\ o \in Times /\ "txMinSepTime" \in Times \ {o}
      BY <1>2, <2>3 DEF Structured, Times
    <3>2. at' # "rxMinSepTime" /\ times["txMinSepTime"] = 0
      BY <1>3, <1>6, <2>3 DEF IInv, SepTimeApplied
    <3> QED
      BY <1>5, <3>1, <3>2 DEF SepTimeApplied
  <2> QED
    BY <1>1, <2>1, <2>2, <2>3 DEF OptionPlaces, Times
<1>11. FirstApplied'
  <2>1. connects # 0
    BY <1>1, PlacesAre DEF IInv, FirstApplied
  <2>2. SUFFICES ASSUME connects = 1, NEW p \in Structured \ disturbed
        PROVE  /\ p \notin Applied(at') => structs'[p] = written[p]
               /\ p \in Applied(at') => kernel'[p] = written[p]
    BY <1>3, <2>1 DEF FirstApplied
  <2>3. CASE p = o
    <3>1. structs[o] = written[o] /\ written[o] \in StructValues
      BY <1>1, <1>6, <2>2, <2>3 DEF IInv, TypeOK, FirstApplied
    <3> QED
      BY <1>3, <1>4, <1>5, <1>6, <2>3, <3>1
  <2>4. CASE p # o
    <3>1. /\ p \notin Applied(at) => structs[p] = written[p]
          /\ p \in Applied(at) => kernel[p] = written[p]
      BY <1>1, <2>2 DEF IInv, FirstApplied
    <3> QED
      BY <1>3, <1>5, <1>6, <2>4, <3>1
  <2> QED
    BY <2>3, <2>4
<1> QED
  BY <1>7, <1>8, <1>9, <1>10, <1>11 DEF IInv

LEMMA ConnectIInv == ASSUME IInv, Connect PROVE IInv'
<1>1. /\ at = "unconnected" /\ connects < MaxConnects /\ at' = "connecting" /\ slot' = TRUE
      /\ connects' = connects + 1 /\ disturbed' = {}
      /\ UNCHANGED <<ids, address, structs, times, kernel, written>>
  BY DEF Connect
<1>2. TypeOK'
  <2>1. connects' \in 0 .. MaxConnects
    BY <1>1, IsoTpAssumption DEF IInv, TypeOK
  <2> QED
    BY <1>1, <2>1, PlacesAre DEF IInv, TypeOK, HasSocket
<1>3. Shapes' /\ AddressPrepared' /\ SepTimeApplied'
  BY <1>1, PlacesAre DEF IInv, Shapes, HasSocket, AddressPrepared, SepTimeApplied
<1>4. FirstApplied'
  <2>1. connects \in Nat
    BY IsoTpAssumption DEF IInv, TypeOK
  <2>2. connects' # 0 /\ (connects' = 1 => structs = written)
    BY <1>1, <2>1 DEF IInv, FirstApplied
  <2>3. at' \notin OptionPlaces \cup {"bind", "connected"}
    BY <1>1, PlacesAre
  <2> QED
    BY <1>1, <2>2, <2>3 DEF FirstApplied
<1> QED
  BY <1>2, <1>3, <1>4 DEF IInv

LEMMA OpenSocketIInv == ASSUME IInv, OpenSocket PROVE IInv'
<1>1. /\ at = "connecting" /\ at' = "isoTpOptions" /\ slot' = FALSE
      /\ address' = ids /\ kernel' = KernelDefault
      /\ UNCHANGED <<ids, structs, times, connects, written, disturbed>>
  BY DEF OpenSocket, ApplyOrder
<1>2. /\ "isoTpOptions" \in OptionPlaces /\ Applied("isoTpOptions") = {}
      /\ Applied("connecting") = {}
  BY DEF OptionPlaces, Structured, Applied
<1>3. /\ KernelDefault \in [KernelOptions -> StructValues \cup SepTimes \cup {"none"}]
      /\ \A o \in Structured : KernelDefault[o] \in StructValues
      /\ KernelDefault["txStMin"] \in SepTimes
  BY IsoTpAssumption DEF KernelDefault, KernelOptions, Structured
<1>4. TypeOK'
  BY <1>1, <1>2, <1>3, PlacesAre DEF IInv, TypeOK
<1>5. Shapes' /\ AddressPrepared' /\ SepTimeApplied'
  BY <1>1, <1>2, <1>3, PlacesAre DEF Shapes, AddressPrepared, SepTimeApplied
<1>6. FirstApplied'
  BY <1>1, <1>2 DEF IInv, FirstApplied
<1> QED
  BY <1>4, <1>5, <1>6 DEF IInv

LEMMA OtherStepsIInv ==
    ASSUME IInv, Bind \/ CallFails \/ Disconnect \/ UNCHANGED vars
    PROVE  IInv'
<1>1. CASE Bind
  <2>1. /\ at = "bind" /\ at' = "connected" /\ slot' = FALSE
        /\ UNCHANGED <<ids, address, structs, times, kernel, connects, written, disturbed>>
    BY <1>1 DEF Bind
  <2>2. Applied("bind") = Applied("connected")
    BY DEF Applied
  <2>3. TypeOK'
    BY <2>1, PlacesAre DEF IInv, TypeOK, HasSocket
  <2>4. Shapes' /\ AddressPrepared' /\ SepTimeApplied'
    BY <2>1 DEF IInv, Shapes, HasSocket, AddressPrepared, SepTimeApplied
  <2>5. FirstApplied'
    BY <2>1, <2>2, PlacesAre DEF IInv, FirstApplied
  <2> QED
    BY <2>3, <2>4, <2>5 DEF IInv
<1>2. CASE CallFails
  <2>1. /\ at' = "error" /\ slot' = TRUE /\ at # "unconnected"
        /\ UNCHANGED <<ids, address, structs, times, kernel, connects, written, disturbed>>
    BY <1>2 DEF CallFails, InConnect
  <2>2. TypeOK'
    BY <2>1, PlacesAre DEF IInv, TypeOK, HasSocket
  <2>3. Shapes' /\ AddressPrepared' /\ SepTimeApplied' /\ FirstApplied'
    BY <2>1, PlacesAre
    DEF IInv, Shapes, HasSocket, AddressPrepared, SepTimeApplied, FirstApplied
  <2> QED
    BY <2>2, <2>3 DEF IInv
<1>3. CASE Disconnect
  <2>1. /\ at' = "unconnected" /\ slot' = FALSE /\ kernel' = NoSocket
        /\ UNCHANGED <<ids, address, structs, times, connects, written, disturbed>>
        /\ connects # 0
    BY <1>3 DEF Disconnect, IInv, FirstApplied
  <2>2. NoSocket \in [KernelOptions -> StructValues \cup SepTimes \cup {"none"}]
    BY DEF NoSocket, KernelOptions
  <2>3. TypeOK'
    BY <2>1, PlacesAre DEF IInv, TypeOK, HasSocket
  <2>4. Shapes' /\ AddressPrepared' /\ SepTimeApplied' /\ FirstApplied'
    BY <2>1, <2>2, PlacesAre
    DEF Shapes, HasSocket, AddressPrepared, SepTimeApplied, FirstApplied
  <2> QED
    BY <2>3, <2>4 DEF IInv
<1>4. CASE UNCHANGED vars
  BY <1>4
  DEF vars, IInv, TypeOK, HasSocket, Shapes, AddressPrepared, SepTimeApplied, FirstApplied
<1> QED
  BY <1>1, <1>2, <1>3, <1>4

LEMMA StepIInv == IInv /\ [Next]_vars => IInv'
<1> SUFFICES ASSUME IInv, [Next]_vars PROVE IInv'
  OBVIOUS
<1>1. ASSUME NEW o \in Structured, NEW value \in StructValues, SetOption(o, value) PROVE IInv'
  <2>1. o \in OptionPlaces /\ value \in IF o \in Structured THEN StructValues ELSE SepTimes
    BY DEF OptionPlaces
  <2> QED
    BY <1>1, <2>1, SetOptionIInv
<1>2. ASSUME NEW o \in Times, NEW value \in SepTimes, SetOption(o, value) PROVE IInv'
  <2>1. o \in OptionPlaces /\ value \in IF o \in Structured THEN StructValues ELSE SepTimes
    BY DEF OptionPlaces, Structured, Times
  <2> QED
    BY <1>2, <2>1, SetOptionIInv
<1> QED
  BY <1>1, <1>2, SetIdIInv, ApplyOptionIInv, ConnectIInv, OpenSocketIInv, OtherStepsIInv
  DEF Next

LEMMA Invariance == Spec => []IInv
BY InitIInv, StepIInv, PTL DEF Spec

(* Members, kernel options and the address hold values of their kind in    *)
(* every reachable state.                                                  *)
THEOREM IsoTpTypes == Spec => []TypeOK
<1>1. IInv => TypeOK
  BY DEF IInv
<1> QED
  BY <1>1, Invariance, PTL

(* The identifiers a connection uses are the ones the getters return, for  *)
(* every application that goes through setTxId() and setRxId().            *)
THEOREM AddressIsCurrent == Spec => []AddressCurrent
<1>1. IInv => AddressCurrent
  BY DEF IInv, AddressPrepared, AddressCurrent
<1> QED
  BY <1>1, Invariance, PTL

(* txMinSepTime() is the separation time in force, although two options    *)
(* write the kernel's, as long as the other one is left alone.             *)
THEOREM SepTimeIsInForce == Spec => []SepTimeInForce
<1>1. IInv => SepTimeInForce
  BY DEF IInv, SepTimeApplied, SepTimeInForce
<1> QED
  BY <1>1, Invariance, PTL

(* In the first connection the structured options in force are those the   *)
(* application set last.                                                   *)
THEOREM FirstOptionsAreInForce == Spec => []FirstOptionsInForce
<1>1. Structured \subseteq Applied("connected")
  BY DEF Applied
<1>2. IInv => FirstOptionsInForce
  BY <1>1 DEF IInv, FirstApplied, FirstOptionsInForce, OptionsInForce
<1> QED
  BY <1>2, Invariance, PTL
=============================================================================
