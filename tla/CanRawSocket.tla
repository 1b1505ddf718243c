---------------------------- MODULE CanRawSocket ----------------------------
(***************************************************************************)
(* The options of CanRawSocket (canrawsocket.cpp).  Each option has two    *)
(* values: the one the object keeps and its getter returns, and the one of *)
(* the kernel's socket, which decides what frames arrive.  setSocketOption *)
(* writes the kernel's first and keeps the value only if that worked; a    *)
(* new connection is a new kernel socket with default values, to which     *)
(* connectToInterface applies the kept ones before bind().                 *)
(*                                                                         *)
(* connectToInterface is modelled system call by system call, because an   *)
(* error signal in the middle runs slots that may set options again, and   *)
(* frames arrive as soon as the socket is bound.  What the connection is   *)
(* otherwise (notifiers, buffers, signals) is in CanAbstractSocket.        *)
(***************************************************************************)
EXTENDS Integers, Sequences, SequencesExt

CONSTANTS
    Values,         \* the values of each option the application uses
    Default,        \* the value of each option in a new object
    KernelDefault,  \* the value of each option in a new kernel socket
    MaxConnects     \* bound: connections tried

Options == {"canFilter", "errorFilterMask", "loopback", "receiveOwnMessages",
            "flexibleDataRateFrames"}

ASSUME OptionsAssumption ==
    /\ DOMAIN Values = Options
    /\ {Default, KernelDefault} \subseteq [Options -> UNION {Values[o] : o \in Options}]
    /\ \A o \in Options : Default[o] \in Values[o] /\ KernelDefault[o] \in Values[o]
    /\ Values["flexibleDataRateFrames"] \subseteq {"Disabled", "Enabled", "Undefined"}
    /\ Default["flexibleDataRateFrames"] = "Disabled"
    /\ KernelDefault["flexibleDataRateFrames"] = "Disabled"
    /\ MaxConnects \in Nat

VARIABLES
    at,         \* "unconnected", "connected", or the place in connectToInterface()
    kept,       \* the members canFilter ... flexibleDataRateFrames
    kernel,     \* the options of the kernel socket, while there is one
    bound,      \* the kernel socket receives
    observed,   \* what an observer last read in a ...Changed() slot, or first
    connects    \* connections tried

vars == <<at, kept, kernel, bound, observed, connects>>

(* slip: an option is forgotten *)
ApplyOrderShort == <<"canFilter", "errorFilterMask", "loopback", "flexibleDataRateFrames">>

(* The order in which connectToInterface() applies the options             *)
ApplyOrder == <<"canFilter", "errorFilterMask", "loopback", "receiveOwnMessages",
                "flexibleDataRateFrames">>

NoSocket == [o \in Options |-> "none"]

HasSocket == kernel # NoSocket

(* Where the application runs: outside connectToInterface(), in the slots  *)
(* of stateChanged(Connecting), before there is a descriptor, and in those *)
(* of error(), with the descriptor still open                              *)
AppRuns == at \in {"unconnected", "connected", "connecting", "error"}

-----------------------------------------------------------------------------
(* setSocketOption(): the system call, then the member and its signal      *)

(* CAN_RAW_FD_FRAMES is an enumerator, not a macro: the code compiled for  *)
(* that option makes no system call, refuses "Enabled" and takes any other *)
(* value without keeping it.                                               *)
Accepts(o, value) == o # "flexibleDataRateFrames" \/ value # "Enabled"

Stored(o) == o # "flexibleDataRateFrames"

(* slip: the signal depends on the kernel's old value *)
ApplyQuietly(o, value) ==
    IF Stored(o)
    THEN /\ kernel' = [kernel EXCEPT ![o] = value]
         /\ kept' = [kept EXCEPT ![o] = value]
         /\ observed' = IF value # kernel[o] THEN [observed EXCEPT ![o] = value] ELSE observed
    ELSE UNCHANGED <<kernel, kept, observed>>

Apply(o, value) ==
    IF Stored(o)
    THEN /\ kernel' = [kernel EXCEPT ![o] = value]
         /\ kept' = [kept EXCEPT ![o] = value]
         /\ observed' = IF value # kept[o] THEN [observed EXCEPT ![o] = value] ELSE observed
    ELSE UNCHANGED <<kernel, kept, observed>>

(* slip: the result of the system call is not looked at *)
SetOptionUnchecked(o, value) ==
    /\ AppRuns
    /\ Accepts(o, value)
    /\ Apply(o, value)
    /\ UNCHANGED <<at, bound, connects>>

(* A setter called by the application.  It fails without a descriptor      *)
(* (EBADF), or when the kernel refuses the value: setError(), no change.   *)
SetOption(o, value) ==
    /\ AppRuns
    /\ HasSocket \/ ~Stored(o)
    /\ Accepts(o, value)
    /\ Apply(o, value)
    /\ UNCHANGED <<at, bound, connects>>

-----------------------------------------------------------------------------
(* connectToInterface() *)

Connect ==
    /\ at = "unconnected" /\ connects < MaxConnects
    /\ at' = "connecting"
    /\ connects' = connects + 1
    /\ UNCHANGED <<kept, kernel, bound, observed>>

(* slip: the members are set to the defaults of the new socket *)
OpenSocketResetting ==
    /\ at = "connecting"
    /\ kernel' = KernelDefault /\ kept' = KernelDefault
    /\ at' = ApplyOrder[1]
    /\ UNCHANGED <<bound, observed, connects>>

(* socket() and what follows up to the first option *)
OpenSocket ==
    /\ at = "connecting"
    /\ kernel' = KernelDefault
    /\ at' = ApplyOrder[1]
    /\ UNCHANGED <<kept, bound, observed, connects>>

NextPlace(o) ==
    LET i == CHOOSE i \in 1 .. Len(ApplyOrder) : ApplyOrder[i] = o
    IN  IF i = Len(ApplyOrder) THEN "bind" ELSE ApplyOrder[i + 1]

(* setSocketOption(o, the value kept), one after the other                 *)
ApplyOption ==
    /\ at \in Options
    /\ Accepts(at, kept[at])
    /\ Apply(at, kept[at])
    /\ at' = NextPlace(at)
    /\ UNCHANGED <<bound, connects>>

Bind ==
    /\ at = "bind"
    /\ bound' = TRUE
    /\ at' = "connected"
    /\ UNCHANGED <<kept, kernel, observed, connects>>

(* Any of the calls fails: error() is emitted, with the descriptor there   *)
(* is; after its slots connectToInterface() returns false.                 *)
CallFails ==
    /\ at \in Options \cup {"connecting", "bind"}
    /\ at' = "error"
    /\ UNCHANGED <<kept, kernel, bound, observed, connects>>

(* ::close(), from close() or after a failed connectToInterface()          *)
Disconnect ==
    /\ at \in {"connected", "error"}
    /\ at' = "unconnected"
    /\ kernel' = NoSocket
    /\ bound' = FALSE
    /\ UNCHANGED <<kept, observed, connects>>

-----------------------------------------------------------------------------
Init ==
    /\ at = "unconnected"
    /\ kept = Default
    /\ kernel = NoSocket
    /\ bound = FALSE
    /\ observed = Default
    /\ connects = 0

Next ==
    \/ \E o \in Options : \E value \in Values[o] : SetOption(o, value)
    \/ Connect \/ OpenSocket \/ ApplyOption \/ Bind \/ CallFails \/ Disconnect

Spec == Init /\ [][Next]_vars

-----------------------------------------------------------------------------
(* Properties *)

(* The members and the kernel's options hold values of their option.       *)
TypeOK ==
    /\ at \in Options \cup {"unconnected", "connecting", "bind", "connected", "error"}
    /\ \A o \in Options : kept[o] \in Values[o] /\ observed[o] \in Values[o]
    /\ kernel = NoSocket \/ \A o \in Options : kernel[o] \in Values[o]
    /\ bound \in BOOLEAN
    /\ connects \in 0 .. MaxConnects

(* From the first moment a frame can arrive, and until the connection      *)
(* ends, the options in force are the ones the getters return: after       *)
(* reconnects, failed connects, refused values and sets from error slots.  *)
InForce == bound => kernel = kept

(* An observer that reads an option when its ...Changed() signal tells it  *)
(* to knows the value of every option at any time.                         *)
ObserverCurrent == observed = kept

(* No failed or repeated connection changes what the object keeps: only a  *)
(* setter does, and connectToInterface() announces no change.              *)
KeptAcrossConnects ==
    [][at' # at => kept' = kept]_vars
=============================================================================
