--------------------------- MODULE CanIsoTpSocket ---------------------------
(***************************************************************************)
(* The identifiers and options of CanIsoTpSocket (canisotpsocket.cpp).     *)
(* As in CanRawSocket an option has the value the object keeps and the one *)
(* of the kernel's socket.  Three things differ:                           *)
(*   - the identifiers are no kernel option but the address that bind()    *)
(*     gives the socket, so they must not change while it is bound;        *)
(*   - the structured options are held by pointer.  CanIsoTpOptions and    *)
(*     its two siblings copy the structure in the copy constructor but not *)
(*     in operator=, which copies the pointer; so setSocketOption, which   *)
(*     assigns from a local variable, keeps a pointer to a structure that  *)
(*     is deleted when it returns ("Dangling").  What is read there next   *)
(*     is some value;                                                      *)
(*   - the comparison of two structured options compares pointers, so the  *)
(*     ...Changed() signal is emitted at every set, also by the sets of    *)
(*     connectToInterface(), whose slots may set options in between.       *)
(***************************************************************************)
EXTENDS Integers, Sequences

CONSTANTS
    CanIds,         \* identifiers
    StructValues,   \* values of a structured option, "default" in a new object
    SepTimes,       \* minimal separation times
    Dangling,       \* what a pointer to a deleted structure refers to
    MaxConnects     \* bound: connections tried

ASSUME IsoTpAssumption ==
    /\ 0 \in CanIds /\ CanIds \subseteq Nat /\ 0 \in SepTimes /\ SepTimes \subseteq Nat
    /\ "default" \in StructValues /\ Dangling \notin StructValues
    /\ MaxConnects \in Nat

Structured == {"isoTpOptions", "flowControlOptions", "linkLayerOptions"}
Times      == {"txMinSepTime", "rxMinSepTime"}
Ids        == {"txId", "rxId"}

VARIABLES
    at,         \* "unconnected", "connected", or the place in connectToInterface()
    slot,       \* slots of a signal run at that place
    ids,        \* txId, rxId
    address,    \* the identifiers prepared for, and given to, bind()
    structs,    \* the structured options the object keeps, or Dangling
    times,      \* txMinSepTime, rxMinSepTime
    kernel,     \* the options of the kernel socket, while there is one
    connects,   \* connections tried
    written,    \* history: the structured options last set by the application
    disturbed   \* history of the connection: options set from slots of
                \* connectToInterface(), rxMinSepTime when set at all, and
                \* identifiers set after the address was prepared

vars == <<at, slot, ids, address, structs, times, kernel, connects, written, disturbed>>

ApplyOrder == <<"isoTpOptions", "flowControlOptions", "txMinSepTime", "rxMinSepTime",
                "linkLayerOptions">>

Places == {"unconnected", "connecting", "bind", "connected", "error"}
              \cup {ApplyOrder[i] : i \in 1 .. Len(ApplyOrder)}

(* slip: the system call names the option of another one *)
KernelOptionCopied(o) ==
    IF o \in Times THEN "txStMin" ELSE IF o = "linkLayerOptions" THEN "flowControlOptions" ELSE o

(* Both times are written to CAN_ISOTP_TX_STMIN                            *)
KernelOption(o) == IF o \in Times THEN "txStMin" ELSE o

KernelDefault ==
    [o \in Structured \cup {"txStMin"} |-> IF o = "txStMin" THEN 0 ELSE "default"]

NoSocket == [o \in Structured \cup {"txStMin"} |-> "none"]

HasSocket == kernel # NoSocket

InConnect == at \notin {"unconnected", "connected"}

AppRuns == InConnect => slot

(* What the copy of a kept structure may hold *)
Readings(o) == IF structs[o] = Dangling THEN StructValues ELSE {structs[o]}

-----------------------------------------------------------------------------
(* setSocketOption(), where the system call succeeds *)

(* slip: the member is left as it was *)
ApplyForgotten(o, value) ==
    /\ kernel' = [kernel EXCEPT ![KernelOption(o)] = value]
    /\ structs' = IF o \in Structured THEN [structs EXCEPT ![o] = Dangling] ELSE structs
    /\ UNCHANGED times

Apply(o, value) ==
    /\ kernel' = [kernel EXCEPT ![KernelOption(o)] = value]
    /\ structs' = IF o \in Structured THEN [structs EXCEPT ![o] = Dangling] ELSE structs
    /\ times' = IF o \in Times THEN [times EXCEPT ![o] = value] ELSE times

Announces(o, value) == o \in Structured \/ times[o] # value

(* slip: the result of the system call is not looked at *)
SetOptionUnchecked(o, value) ==
    /\ AppRuns
    /\ Apply(o, value)
    /\ written' = IF o \in Structured THEN [written EXCEPT ![o] = value] ELSE written
    /\ UNCHANGED <<at, slot, ids, address, connects, disturbed>>

(* The setters of the options.  They fail without a descriptor: an error   *)
(* is reported and nothing changes.                                        *)
SetOption(o, value) ==
    /\ AppRuns /\ HasSocket
    /\ Apply(o, value)
    /\ written' = IF o \in Structured THEN [written EXCEPT ![o] = value] ELSE written
    /\ disturbed' = IF InConnect \/ o = "rxMinSepTime" THEN disturbed \cup {o} ELSE disturbed
    /\ UNCHANGED <<at, slot, ids, address, connects>>

(* slip: the state is not checked *)
SetIdAnytime(o, id) ==
    /\ AppRuns
    /\ ids' = [ids EXCEPT ![o] = id]
    /\ UNCHANGED <<at, slot, address, structs, times, kernel, connects, written, disturbed>>

(* setTxId() and setRxId() refuse to change an identifier of a socket that *)
(* is not unconnected ...                                                  *)
SetId(o, id) ==
    /\ at = "unconnected"
    /\ ids' = [ids EXCEPT ![o] = id]
    /\ UNCHANGED <<at, slot, address, structs, times, kernel, connects, written, disturbed>>

(* ... but setSocketOption(), which they call, does not look at the state  *)
SetIdOption(o, id) ==
    /\ AppRuns
    /\ ids' = [ids EXCEPT ![o] = id]
    /\ disturbed' = IF at \in {"unconnected", "connecting"} THEN disturbed
                    ELSE disturbed \cup {o}
    /\ UNCHANGED <<at, slot, address, structs, times, kernel, connects, written>>

-----------------------------------------------------------------------------
(* connectToInterface() *)

(* up to stateChanged(Connecting) *)
Connect ==
    /\ at = "unconnected" /\ connects < MaxConnects
    /\ at' = "connecting" /\ slot' = TRUE
    /\ connects' = connects + 1
    /\ disturbed' = {}
    /\ UNCHANGED <<ids, address, structs, times, kernel, written>>

(* the address, socket() and what follows up to the first option *)
OpenSocket ==
    /\ at = "connecting"
    /\ address' = ids
    /\ kernel' = KernelDefault
    /\ at' = ApplyOrder[1] /\ slot' = FALSE
    /\ UNCHANGED <<ids, structs, times, connects, written, disturbed>>

NextPlace(o) ==
    LET i == CHOOSE i \in 1 .. Len(ApplyOrder) : ApplyOrder[i] = o
    IN  IF i = Len(ApplyOrder) THEN "bind" ELSE ApplyOrder[i + 1]

(* One option: a structure is what the object keeps, a time is always 0.   *)
(* The slots of its signal run before the next one.                        *)
ApplyOption ==
    /\ at \in Structured \cup Times
    /\ \E value \in IF at \in Structured THEN Readings(at) ELSE {0} :
        /\ Apply(at, value)
        /\ slot' = Announces(at, value)
    /\ at' = NextPlace(at)
    /\ UNCHANGED <<ids, address, connects, written, disturbed>>

Bind ==
    /\ at = "bind"
    /\ at' = "connected" /\ slot' = FALSE
    /\ UNCHANGED <<ids, address, structs, times, kernel, connects, written, disturbed>>

(* Any of the calls fails: error(), then connectToInterface() gives up     *)
CallFails ==
    /\ InConnect /\ at # "error"
    /\ at' = "error" /\ slot' = TRUE
    /\ UNCHANGED <<ids, address, structs, times, kernel, connects, written, disturbed>>

(* ::close(), from close() or after a failed connectToInterface()          *)
Disconnect ==
    /\ at \in {"connected", "error"}
    /\ at' = "unconnected" /\ slot' = FALSE
    /\ kernel' = NoSocket
    /\ UNCHANGED <<ids, address, structs, times, connects, written, disturbed>>

-----------------------------------------------------------------------------
Init ==
    /\ at = "unconnected" /\ slot = FALSE
    /\ ids = [i \in Ids |-> 0] /\ address = ids
    /\ structs = [o \in Structured |-> "default"]
    /\ times = [o \in Times |-> 0]
    /\ kernel = NoSocket
    /\ connects = 0
    /\ written = structs
    /\ disturbed = {}

Next ==
    \/ \E o \in Structured : \E value \in StructValues : SetOption(o, value)
    \/ \E o \in Times : \E value \in SepTimes : SetOption(o, value)
    \/ \E o \in Ids : \E id \in CanIds : SetId(o, id) \/ SetIdOption(o, id)
    \/ Connect \/ OpenSocket \/ ApplyOption \/ Bind \/ CallFails \/ Disconnect

Spec == Init /\ [][Next]_vars

-----------------------------------------------------------------------------
(* Properties *)

(* Every member and kernel option has a value of its kind.                 *)
TypeOK ==
    /\ at \in Places /\ slot \in BOOLEAN
    /\ ids \in [Ids -> CanIds] /\ address \in [Ids -> CanIds]
    /\ structs \in [Structured -> StructValues \cup {Dangling}]
    /\ times \in [Times -> SepTimes]
    /\ HasSocket => /\ \A o \in Structured : kernel[o] \in StructValues
                    /\ kernel["txStMin"] \in SepTimes
    /\ connects \in 0 .. MaxConnects
    /\ written \in [Structured -> StructValues]
    /\ disturbed \in SUBSET (Structured \cup Times \cup Ids)

(* The connection uses the identifiers that txId() and rxId() return, from *)
(* bind() to close(), also when slots run and set what they may.  Only     *)
(* setSocketOption(), called past the setters, makes them differ.          *)
AddressCurrent ==
    at \in {"bind", "connected"} => \A o \in Ids \ disturbed : address[o] = ids[o]

(* While connected, txMinSepTime() is the separation time in force, on an  *)
(* application that leaves rxMinSepTime alone and sets neither from a slot *)
(* of connectToInterface().                                                *)
SepTimeInForce ==
    at = "connected" /\ disturbed \cap Times = {} => kernel["txStMin"] = times["txMinSepTime"]

(* Every structured option in force is the one last set, in all the        *)
(* connections of the object (slots of connectToInterface() set aside):    *)
(* what WRITE of the property gave is what READ and the kernel get.        *)
OptionsInForce ==
    at = "connected" => \A o \in Structured \ disturbed : kernel[o] = written[o]

(* ... which the first connection of an object guarantees.                 *)
FirstOptionsInForce == connects = 1 => OptionsInForce
=============================================================================
