---------------------------- MODULE CanRawReceive ----------------------------
(***************************************************************************)
(* What a raw socket's options do to the frames its application reads: the *)
(* composition of CanRawSocket with its filter arrays on one side and the  *)
(* frames the kernel lets through on the other.                            *)
(*                                                                         *)
(* A CanRawFilterArray shares its data with its copies until one of them   *)
(* is changed.  The application has one, which it edits, gives to          *)
(* setCanFilter() or gets from canFilter(), and a pointer from data().     *)
(* The pointer is used as Qt's containers allow: not after the array was   *)
(* resized or assigned to.  setCanFilter() takes a reference, so that the  *)
(* pointer stays in use; that the array is copied inside is not visible.   *)
(***************************************************************************)
EXTENDS CanRawSocket

CONSTANTS
    FilterOf,       \* the filters of each value of the option canFilter
    Frames,         \* what may arrive: kinds "bus", "own" and "error"
    MaxArrivals     \* bound: frames that arrive in a connection

(* CanRawFilter(), with sets of bits for numbers *)
DefaultFilter == [id |-> {}, mask |-> {}]

ASSUME ReceiveAssumption ==
    /\ DOMAIN FilterOf = Values["canFilter"]
    /\ Values["errorFilterMask"] \subseteq {"noErrors", "allErrors"}
    /\ \A o \in {"loopback", "receiveOwnMessages"} : Values[o] \subseteq {"Disabled", "Enabled"}
    /\ MaxArrivals \in Nat

VARIABLES
    array,      \* the application's array
    shared,     \* it shares its data with the member canFilter
    pointer,    \* the application has a pointer to its first filter
    rxQueue,    \* frames the kernel has for the socket
    buffer,     \* frames in the read buffer
    got,        \* frames the application has read in this connection
    arrivals,   \* frames that arrived in this connection
    setAt       \* how many of them before an option was last set

editing   == <<array, shared, pointer>>
receiving == <<rxQueue, buffer, got, arrivals>>
rvars     == <<vars, editing, receiving, setAt>>

-----------------------------------------------------------------------------
(* CanRawFilterArray: append(), resize(), data() and copies.  Whatever     *)
(* changes an array gives it data of its own first.                        *)

Becomes(filters) == array' \in {name \in DOMAIN FilterOf : FilterOf[name] = filters}

Changed(filters) ==
    /\ AppRuns
    /\ Becomes(filters)
    /\ shared' = FALSE /\ pointer' = FALSE
    /\ UNCHANGED <<vars, receiving, setAt>>

AppendFilter(filter) == Changed(Append(FilterOf[array], filter))

Resize(n) ==
    Changed([i \in 1 .. n |->
        IF i <= Len(FilterOf[array]) THEN FilterOf[array][i] ELSE DefaultFilter])

Data ==
    /\ AppRuns /\ FilterOf[array] # <<>>
    /\ shared' = FALSE /\ pointer' = TRUE
    /\ UNCHANGED <<vars, array, receiving, setAt>>

WriteThrough(filter) ==
    /\ AppRuns /\ pointer
    /\ Becomes([FilterOf[array] EXCEPT ![1] = filter])
    /\ kept' = IF shared THEN [kept EXCEPT !["canFilter"] = array'] ELSE kept
    /\ UNCHANGED <<at, kernel, bound, observed, connects, shared, pointer, receiving, setAt>>

(* array = socket.canFilter() *)
GetCanFilter ==
    /\ AppRuns
    /\ array' = kept["canFilter"]
    /\ shared' = TRUE /\ pointer' = FALSE
    /\ UNCHANGED <<vars, receiving, setAt>>

(* slip: constData() instead of data(), which copies *)
SetCanFilterShared ==
    /\ SetOption("canFilter", array)
    /\ setAt' = arrivals
    /\ shared' = (shared \/ array # kept["canFilter"])
    /\ UNCHANGED <<array, pointer, receiving>>

(* newCanFilter.data() gives newCanFilter data of its own; the member      *)
(* takes it, or, being equal, keeps what it has                            *)
SetCanFilter ==
    /\ SetOption("canFilter", array)
    /\ setAt' = arrivals
    /\ UNCHANGED <<editing, receiving>>

SetOther(o, value) ==
    /\ o # "canFilter"
    /\ SetOption(o, value)
    /\ setAt' = arrivals
    /\ UNCHANGED <<editing, receiving>>

-----------------------------------------------------------------------------
(* connections *)

(* slip: the read buffer is not cleared *)
ConnectKeeping ==
    /\ Connect
    /\ got' = <<>> /\ arrivals' = 0 /\ setAt' = 0
    /\ UNCHANGED <<editing, rxQueue, buffer>>

ConnectAgain ==
    /\ Connect
    /\ buffer' = <<>> /\ got' = <<>> /\ arrivals' = 0 /\ setAt' = 0
    /\ UNCHANGED <<editing, rxQueue>>

Connecting ==
    /\ OpenSocket \/ ApplyOption \/ Bind \/ CallFails
    /\ UNCHANGED <<editing, receiving, setAt>>

(* What the kernel holds goes with its socket *)
DisconnectAll ==
    /\ Disconnect
    /\ rxQueue' = <<>>
    /\ UNCHANGED <<editing, buffer, got, arrivals, setAt>>

-----------------------------------------------------------------------------
(* frames *)

Matches(filter, frame) == frame.id \cap filter.mask = filter.id \cap filter.mask

(* What a CAN_RAW socket lets through *)
Admits(options, frame) ==
    IF frame.kind = "error" THEN options["errorFilterMask"] = "allErrors"
    ELSE /\ \E i \in DOMAIN FilterOf[options["canFilter"]] :
                Matches(FilterOf[options["canFilter"]][i], frame)
         /\ frame.kind = "own" =>
                options["loopback"] = "Enabled" /\ options["receiveOwnMessages"] = "Enabled"

Arrive(frame) ==
    /\ bound /\ arrivals < MaxArrivals
    /\ Admits(kernel, frame)
    /\ arrivals' = arrivals + 1
    /\ rxQueue' = Append(rxQueue, [no |-> arrivals + 1, frame |-> frame])
    /\ UNCHANGED <<vars, editing, buffer, got, setAt>>

(* readNotification(), with room for n frames *)
ReadNotification ==
    /\ at = "connected" /\ rxQueue # <<>>
    /\ \E n \in 1 .. Len(rxQueue) :
        /\ buffer' = buffer \o SubSeq(rxQueue, 1, n)
        /\ rxQueue' = SubSeq(rxQueue, n + 1, Len(rxQueue))
    /\ UNCHANGED <<vars, editing, got, arrivals, setAt>>

(* The application reads a frame *)
Read ==
    /\ at = "connected" /\ buffer # <<>>
    /\ got' = Append(got, Head(buffer))
    /\ buffer' = Tail(buffer)
    /\ UNCHANGED <<vars, editing, rxQueue, arrivals, setAt>>

-----------------------------------------------------------------------------
Filters == {DefaultFilter} \cup UNION {ToSet(FilterOf[name]) : name \in DOMAIN FilterOf}

ReceiveInit ==
    /\ Init
    /\ array \in {name \in DOMAIN FilterOf : FilterOf[name] = <<>>}
    /\ shared = FALSE /\ pointer = FALSE
    /\ rxQueue = <<>> /\ buffer = <<>> /\ got = <<>>
    /\ arrivals = 0 /\ setAt = 0

ReceiveNext ==
    \/ \E filter \in Filters : AppendFilter(filter) \/ WriteThrough(filter)
    \/ \E n \in 0 .. 2 : Resize(n)
    \/ Data \/ GetCanFilter \/ SetCanFilter
    \/ \E o \in Options : \E value \in Values[o] : SetOther(o, value)
    \/ ConnectAgain \/ Connecting \/ DisconnectAll
    \/ \E frame \in Frames : Arrive(frame)
    \/ ReadNotification \/ Read

ReceiveSpec == ReceiveInit /\ [][ReceiveNext]_rvars

-----------------------------------------------------------------------------
(* Properties *)

(* The queues hold frames.  (CanRawSocket's TypeOK is about the options.)  *)
ReceiveTypeOK ==
    /\ TypeOK
    /\ array \in DOMAIN FilterOf
    /\ shared \in BOOLEAN /\ pointer \in BOOLEAN
    /\ {rxQueue, buffer, got} \subseteq Seq([no : Nat \ {0}, frame : Frames])
    /\ {arrivals, setAt} \subseteq 0 .. MaxArrivals

(* setCanFilter() does not take back the frames that came through the old  *)
(* filter.  They are read first, in their order; and from the first frame  *)
(* that arrived after the last setter, all pass the options the getters    *)
(* return, whatever was edited, refused, reconnected or read in between.   *)
NewFilterAfterOld ==
    LET stream == got \o buffer \o rxQueue
    IN  \A i \in 1 .. Len(stream) :
            /\ \A j \in 1 .. i - 1 : stream[j].no < stream[i].no
            /\ stream[i].no > setAt => Admits(kept, stream[i].frame)

(* The socket's options are its own: no edit of an array, and no pointer   *)
(* into one, is a step of them.                                            *)
OptionsUntouched == Spec
=============================================================================
