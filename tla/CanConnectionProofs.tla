------------------------- MODULE CanConnectionProofs -------------------------
(***************************************************************************)
(* The life of a connection: state, descriptor, notifiers, the accounting  *)
(* of bytesWritten() and the arming of the notifiers, in every nesting of  *)
(* slots, for any errors, descriptors, sizes and bounds.                   *)
(***************************************************************************)
EXTENDS CanAbstractSocketProofs

-----------------------------------------------------------------------------
(* What is asked of the application.  In the slots of these signals the    *)
(* function that emits has left the socket between two states; a slot that *)
(* closes or connects there leaves a descriptor open or a state without    *)
(* one, and one that writes creates a notifier for no descriptor.  Only    *)
(* the slot of a failed close may close again; but then no slot may        *)
(* connect before that first close has returned.                           *)
Quiet == {"connecting", "closing", "closeError"}

(* Slots that may run inside one of bytesWritten(): what they send is not  *)
(* reported.                                                               *)
Silent  == Quiet \cup {"connectError", "connected", "unconnected", "apiError", "bytesWritten"}
Pumping == {"flush", "waitForReadyRead", "waitForBytesWritten", "events"}

ClosesAgain == \E c \in AppCalls : c[1] = "closeError"

(* (close() ignores descriptor 0, and so leaves it open.)                  *)
SlotsKeepOut ==
    /\ 0 \notin Fds
    /\ \A c \in AppCalls :
        /\ c[1] \notin {"connecting", "closing"}
        /\ c[1] \in {"connectError", "closeError"} => c[2] = "close"
        /\ c[1] = "unconnected" => ~ClosesAgain
        /\ c[1] \in Silent => c[2] \notin Pumping

(* For reception: without errors of read() and with a limit that is never  *)
(* taken away again, nothing but a full buffer disarms the read notifier.  *)
ReadsGoWell == ReadErrors = {} /\ 0 \notin BufferSizes

-----------------------------------------------------------------------------
(* The inductive invariant.  A state between two others lasts exactly as   *)
(* long as the slot on top of the stack, except that a close that fails    *)
(* again and again piles up its slots, ...                                 *)
Avoids(s, places) == \A i \in 1 .. Len(s) : s[i].at \notin places

Piled(s) ==
    /\ Avoids(s, {"connecting", "closing"})
    /\ \A i \in 1 .. Len(s) :
        s[i].at = "closeError" => \A j \in 1 .. i : s[j].at = "closeError"

ClosingAgain ==
    /\ ClosesAgain
    /\ Context = "closeError" \/ (Context = "unconnected" /\ state = "Unconnected")

Places ==
    /\ stack # <<>> => Avoids(Below, Quiet) \/ (ClosingAgain /\ Piled(Below))
    /\ Context = "connecting" => state = "Connecting" /\ Head(stack).mode = openMode
    /\ Context = "closing" => state = "Closing"
    /\ Context = "closeError" => state = "Closing" \/ (ClosesAgain /\ state = "Unconnected")
    /\ state = "Connecting" => Context \in {"connecting", "connectError"}
    /\ state = "Closing" => Context \in {"closing", "closeError"}

(* ... and says what there is of descriptors and notifiers; ...            *)
NoNotifiers == readNotifier = NULL /\ writeNotifier = NULL

Resources ==
    /\ openFds \subseteq {descriptor}
    /\ NotifierBound
    /\ state = "Unconnected" => descriptor = -1 /\ openMode = {}
    /\ state = "Connecting" => /\ openMode # {} /\ NoNotifiers
                               /\ Context = "connecting" => descriptor = -1
    /\ state = "Connected" => descriptor \in openFds /\ openMode # {}
    /\ state = "Closing" => openMode = {}
    /\ Context = "closeError" => NoNotifiers /\ openFds = {}

(* ... while bytes are being reported no slot can send more, ...           *)
Muffled(s) ==
    \E k \in 1 .. Len(s) : s[k].at = "bytesWritten" /\ \A i \in 1 .. k : s[i].at \in Silent

Accounts ==
    /\ state \in {"Unconnected", "Connecting"} => pendingBytesWritten = 0
    /\ state = "Connecting" => reported = 0 /\ txCount = 0 /\ writeBuffer = <<>>
    /\ BytesWrittenAccounted
    /\ emittedBytesWritten => Muffled(stack)

(* ... and what waits to be sent or reported is armed in the slots, too.   *)
Armed ==
    state = "Connected" /\ (writeBuffer # <<>> \/ pendingBytesWritten > 0)
        => Enabled(writeNotifier)

CInv == Places /\ Resources /\ Accounts /\ Armed

Idle == state \in {"Unconnected", "Connected"}

-----------------------------------------------------------------------------
(* Stacks *)

LEMMA ConsRecord ==
    ASSUME NEW s \in Seq(Record), NEW r \in Record
    PROVE  /\ Cons(r, s) \in Seq(Record) /\ Len(s) \in Nat
           /\ Len(Cons(r, s)) = Len(s) + 1 /\ Cons(r, s)[1] = r
           /\ \A i \in 1 .. Len(s) : Cons(r, s)[i + 1] = s[i]
<1>1. Len(s) \in Nat
  OBVIOUS
<1>2. /\ Cons(r, s) \in Seq(Record)
      /\ Len(Cons(r, s)) = Len(s) + 1
      /\ Cons(r, s)[1] = r
      /\ \A i \in 1 .. Len(s) : Cons(r, s)[i + 1] = s[i]
  BY ConsType
<1> QED
  BY <1>1, <1>2

LEMMA ConsParts ==
    ASSUME NEW s \in Seq(Record), NEW r \in Record
    PROVE  Cons(r, s) # <<>> /\ Head(Cons(r, s)) = r /\ Tail(Cons(r, s)) = s
<1> DEFINE t == Cons(r, s)
<1>1. /\ t \in Seq(Record) /\ Len(t) = Len(s) + 1 /\ t[1] = r /\ Len(s) \in Nat
      /\ \A i \in 1 .. Len(s) : t[i + 1] = s[i]
  BY ConsRecord
<1> HIDE DEF t
<1>2. t # <<>>
  BY <1>1, EmptySeq
<1>3. Head(t) = r
  BY <1>1, <1>2
<1>4. /\ Tail(t) \in Seq(Record) /\ Len(Tail(t)) = Len(s)
      /\ \A i \in 1 .. Len(s) : Tail(t)[i] = t[i + 1]
  BY <1>1, <1>2, HeadTailProperties
<1>5. Tail(t) = s
  BY <1>1, <1>4, SeqEqual
<1> QED
  BY <1>2, <1>3, <1>5 DEF t

LEMMA AvoidsCons ==
    ASSUME NEW places, NEW s \in Seq(Record), NEW r \in Record,
           Avoids(s, places), r.at \notin places
    PROVE  Avoids(Cons(r, s), places)
<1>1. /\ Len(Cons(r, s)) = Len(s) + 1 /\ Cons(r, s)[1] = r /\ Len(s) \in Nat
      /\ \A i \in 1 .. Len(s) : Cons(r, s)[i + 1] = s[i]
  BY ConsRecord
<1>2. ASSUME NEW i \in 1 .. Len(Cons(r, s)) PROVE Cons(r, s)[i].at \notin places
  <2>1. i = 1 \/ (i - 1 \in 1 .. Len(s) /\ i = (i - 1) + 1)
    BY <1>1
  <2> QED
    BY <1>1, <2>1 DEF Avoids
<1> QED
  BY <1>2 DEF Avoids

LEMMA AvoidsParts ==
    ASSUME NEW places, NEW s \in Seq(Record), s # <<>>
    PROVE  Avoids(s, places) <=> Avoids(Tail(s), places) /\ Head(s).at \notin places
<1>1. /\ Len(s) \in Nat \ {0} /\ Head(s) = s[1] /\ Len(Tail(s)) = Len(s) - 1
      /\ \A i \in 1 .. Len(s) - 1 : Tail(s)[i] = s[i + 1]
  BY EmptySeq, HeadTailProperties
<1>2. ASSUME Avoids(s, places) PROVE Avoids(Tail(s), places) /\ Head(s).at \notin places
  BY <1>1, <1>2 DEF Avoids
<1>3. ASSUME Avoids(Tail(s), places), Head(s).at \notin places PROVE Avoids(s, places)
  <2>1. ASSUME NEW i \in 1 .. Len(s) PROVE s[i].at \notin places
    <3>1. i = 1 \/ (i - 1 \in 1 .. Len(s) - 1 /\ i = (i - 1) + 1)
      BY <1>1
    <3> QED
      BY <1>1, <1>3, <3>1 DEF Avoids
  <2> QED
    BY <2>1 DEF Avoids
<1> QED
  BY <1>2, <1>3

LEMMA PiledHead ==
    ASSUME NEW s \in Seq(Record), s # <<>>, Head(s).at = "closeError", Piled(Tail(s))
    PROVE  Piled(s)
<1>1. /\ Len(s) \in Nat \ {0} /\ Head(s) = s[1] /\ Len(Tail(s)) = Len(s) - 1
      /\ \A i \in 1 .. Len(s) - 1 : Tail(s)[i] = s[i + 1]
  BY EmptySeq, HeadTailProperties
<1>2. Avoids(s, {"connecting", "closing"})
  BY AvoidsParts DEF Piled
<1>3. ASSUME NEW i \in 1 .. Len(s), s[i].at = "closeError", NEW j \in 1 .. i
      PROVE  s[j].at = "closeError"
  <2>1. CASE j = 1
    BY <1>1, <2>1
  <2>2. CASE j # 1
    <3>1. /\ i - 1 \in 1 .. Len(s) - 1 /\ i = (i - 1) + 1
          /\ j - 1 \in 1 .. i - 1 /\ j - 1 \in 1 .. Len(s) - 1 /\ j = (j - 1) + 1
      BY <1>1, <2>2
    <3>2. Tail(s)[i - 1].at = "closeError"
      BY <1>1, <1>3, <3>1
    <3>3. Tail(s)[j - 1].at = "closeError"
      BY <1>1, <3>1, <3>2 DEF Piled
    <3> QED
      BY <1>1, <3>1, <3>3
  <2> QED
    BY <2>1, <2>2
<1> QED
  BY <1>2, <1>3 DEF Piled

LEMMA PiledParts ==
    ASSUME NEW s \in Seq(Record), Piled(s), s # <<>>
    PROVE  /\ Head(s).at \notin {"connecting", "closing"}
           /\ Head(s).at = "closeError" => Piled(Tail(s))
           /\ Head(s).at # "closeError" => Avoids(s, Quiet)
<1>1. /\ Len(s) \in Nat \ {0} /\ Head(s) = s[1] /\ Len(Tail(s)) = Len(s) - 1
      /\ \A i \in 1 .. Len(s) - 1 : Tail(s)[i] = s[i + 1]
  BY EmptySeq, HeadTailProperties
<1>2. Head(s).at \notin {"connecting", "closing"} /\ Avoids(Tail(s), {"connecting", "closing"})
  BY AvoidsParts DEF Piled
<1>3. Piled(Tail(s))
  <2>1. ASSUME NEW i \in 1 .. Len(Tail(s)), Tail(s)[i].at = "closeError", NEW j \in 1 .. i
        PROVE  Tail(s)[j].at = "closeError"
    <3>1. /\ i + 1 \in 1 .. Len(s) /\ j + 1 \in 1 .. i + 1
          /\ i \in 1 .. Len(s) - 1 /\ j \in 1 .. Len(s) - 1
      BY <1>1
    <3>2. s[i + 1].at = "closeError"
      BY <1>1, <2>1, <3>1
    <3>3. s[j + 1].at = "closeError"
      BY <3>1, <3>2 DEF Piled
    <3> QED
      BY <1>1, <3>1, <3>3
  <2> QED
    BY <1>2, <2>1 DEF Piled
<1>4. ASSUME Head(s).at # "closeError" PROVE Avoids(s, Quiet)
  <2>1. ASSUME NEW i \in 1 .. Len(s), s[i].at = "closeError" PROVE FALSE
    <3>1. 1 \in 1 .. i
      BY <1>1
    <3>2. s[1].at = "closeError"
      BY <2>1, <3>1 DEF Piled
    <3> QED
      BY <1>1, <1>4, <3>2
  <2> QED
    BY <2>1 DEF Piled, Avoids, Quiet
<1> QED
  BY <1>2, <1>3, <1>4

LEMMA AvoidsPiles ==
    ASSUME NEW s, Avoids(s, Quiet)
    PROVE  Piled(s)
  BY DEF Avoids, Piled, Quiet

LEMMA AvoidsResume ==
    ASSUME NEW places, NEW s \in Seq(Record), NEW result \in BOOLEAN,
           Avoids(s, places), "rr.loop" \notin places, "bw.afterRead" \notin places
    PROVE  Avoids(Resume(result, s), places)
<1>1. CASE s = <<>>
  BY <1>1 DEF Resume
<1>2. CASE s # <<>>
  <2>1. Avoids(Tail(s), places) /\ Tail(s) \in Seq(Record) /\ Head(s) \in Record
    BY <1>2, AvoidsParts, HeadTailProperties
  <2>2. ASSUME NEW at \in {"rr.loop", "bw.afterRead"}
        PROVE  Avoids(Cons([Head(s) EXCEPT !.at = at], Tail(s)), places)
    <3>1. [Head(s) EXCEPT !.at = at] \in Record /\ [Head(s) EXCEPT !.at = at].at = at
      BY <2>1 DEF Record, WaitLabels
    <3> QED
      BY <2>1, <3>1, AvoidsCons
  <2> QED
    BY <1>2, <2>1, <2>2 DEF Resume
<1> QED
  BY <1>1, <1>2

LEMMA MuffledCons ==
    ASSUME NEW s \in Seq(Record), NEW r \in Record, r.at \in Silent,
           Muffled(s) \/ r.at = "bytesWritten"
    PROVE  Muffled(Cons(r, s))
<1>1. /\ Len(Cons(r, s)) = Len(s) + 1 /\ Cons(r, s)[1] = r /\ Len(s) \in Nat
      /\ \A i \in 1 .. Len(s) : Cons(r, s)[i + 1] = s[i]
  BY ConsRecord
<1>2. CASE r.at = "bytesWritten"
  <2>1. 1 \in 1 .. Len(Cons(r, s)) /\ \A i \in 1 .. 1 : Cons(r, s)[i].at \in Silent
    BY <1>1
  <2> QED
    BY <1>1, <1>2, <2>1 DEF Muffled
<1>3. CASE Muffled(s)
  <2>1. PICK k \in 1 .. Len(s) : s[k].at = "bytesWritten" /\ \A i \in 1 .. k : s[i].at \in Silent
    BY <1>3 DEF Muffled
  <2>2. ASSUME NEW i \in 1 .. k + 1 PROVE Cons(r, s)[i].at \in Silent
    <3>1. i = 1 \/ (i - 1 \in 1 .. k /\ i - 1 \in 1 .. Len(s) /\ i = (i - 1) + 1)
      BY <1>1
    <3> QED
      BY <1>1, <2>1, <3>1
  <2>3. k + 1 \in 1 .. Len(Cons(r, s)) /\ Cons(r, s)[k + 1].at = "bytesWritten"
    BY <1>1, <2>1
  <2> QED
    BY <2>2, <2>3 DEF Muffled
<1> QED
  BY <1>2, <1>3

LEMMA MuffledParts ==
    ASSUME NEW s \in Seq(Record), Muffled(s)
    PROVE  /\ s # <<>> /\ Head(s).at \in Silent
           /\ Head(s).at # "bytesWritten" => Muffled(Tail(s))
<1>1. PICK k \in 1 .. Len(s) : s[k].at = "bytesWritten" /\ \A i \in 1 .. k : s[i].at \in Silent
  BY DEF Muffled
<1>2. s # <<>> /\ Len(s) \in Nat
  BY EmptySeq
<1>3. /\ Head(s) = s[1] /\ Len(Tail(s)) = Len(s) - 1
      /\ \A i \in 1 .. Len(s) - 1 : Tail(s)[i] = s[i + 1]
  BY <1>2, HeadTailProperties
<1>4. Head(s).at \in Silent
  BY <1>1, <1>2, <1>3
<1>5. ASSUME Head(s).at # "bytesWritten" PROVE Muffled(Tail(s))
  <2>1. k - 1 \in 1 .. Len(Tail(s)) /\ Tail(s)[k - 1] = s[(k - 1) + 1] /\ (k - 1) + 1 = k
    BY <1>1, <1>2, <1>3, <1>5
  <2>2. ASSUME NEW i \in 1 .. k - 1 PROVE Tail(s)[i].at \in Silent
    BY <1>1, <1>2, <1>3
  <2> QED
    BY <1>1, <2>1, <2>2 DEF Muffled
<1> QED
  BY <1>2, <1>4, <1>5

-----------------------------------------------------------------------------
(* Who runs when *)

LEMMA Running ==
    ASSUME TypeOK, CInv, Context \notin Quiet \cup {"connectError"}, ~ClosingAgain
    PROVE  Idle /\ Avoids(stack, Quiet)
<1>1. /\ Context # "connecting" /\ Context # "connectError"
      /\ Context # "closing" /\ Context # "closeError"
  BY DEF Quiet
<1>2. Idle
  <2>1. state # "Connecting" /\ state # "Closing"
    BY <1>1 DEF CInv, Places
  <2> QED
    BY <2>1 DEF TypeOK, Idle
<1>3. CASE stack = <<>>
  <2>1. Len(stack) = 0
    BY <1>3
  <2> QED
    BY <1>2, <2>1 DEF Avoids
<1>4. CASE stack # <<>>
  <2>1. Head(stack).at \notin Quiet /\ Avoids(Tail(stack), Quiet)
    BY <1>4 DEF Context, CInv, Places, Below
  <2> QED
    BY <1>2, <1>4, <2>1, AvoidsParts DEF TypeOK
<1> QED
  BY <1>3, <1>4

(* No slot outside Silent runs within one of bytesWritten() *)
LEMMA NotEmitting ==
    ASSUME TypeOK, CInv, Context \notin Silent
    PROVE  ~emittedBytesWritten
<1> SUFFICES ASSUME emittedBytesWritten PROVE FALSE
  OBVIOUS
<1>1. stack # <<>> /\ Head(stack).at \in Silent
  BY MuffledParts DEF CInv, Accounts, TypeOK
<1> QED
  BY <1>1 DEF Context

LEMMA Returning ==
    ASSUME TypeOK, CInv, stack # <<>>
    PROVE  /\ Below \in Seq(Record) /\ (~ClosingAgain => Avoids(Below, Quiet))
           /\ emittedBytesWritten => /\ Context \in Silent
                                     /\ Context # "bytesWritten" => Muffled(Below)
<1>1. Below \in Seq(Record) /\ (~ClosingAgain => Avoids(Below, Quiet))
  BY StackType DEF CInv, Places
<1>2. emittedBytesWritten => /\ Head(stack).at \in Silent
                             /\ Head(stack).at # "bytesWritten" => Muffled(Tail(stack))
  BY MuffledParts DEF CInv, Accounts, TypeOK
<1> QED
  BY <1>1, <1>2 DEF Context, Below

LEMMA Callers ==
    ASSUME SlotsKeepOut, TypeOK, CInv, NEW call, MayCall(call), call # "close"
    PROVE  /\ Idle /\ Avoids(stack, Quiet)
           /\ call \in Pumping => ~emittedBytesWritten
<1>1. /\ Context \notin Quiet /\ Context # "connectError"
      /\ Context = "unconnected" => ~ClosesAgain
      /\ call \in Pumping => Context \notin Silent
  <2>1. <<Context, call>> \in AppCalls /\ <<Context, call>>[1] = Context
        /\ <<Context, call>>[2] = call
    BY DEF MayCall
  <2> QED
    BY <2>1 DEF SlotsKeepOut, Quiet
<1>2. ASSUME emittedBytesWritten PROVE Context \in Silent
  <2>1. stack # <<>> /\ Head(stack).at \in Silent
    BY <1>2, MuffledParts DEF CInv, Accounts, TypeOK
  <2> QED
    BY <2>1 DEF Context
<1>3. ~ClosingAgain
  BY <1>1 DEF ClosingAgain, Quiet
<1> QED
  BY <1>1, <1>2, <1>3, Running

LEMMA EventLoop ==
    ASSUME SlotsKeepOut, TypeOK, CInv, Dispatching
    PROVE  Idle /\ Avoids(stack, Quiet) /\ ~emittedBytesWritten
<1>1. CASE stack = <<>>
  <2>1. Context = "main" /\ ~emittedBytesWritten
    BY <1>1, MuffledParts DEF Context, CInv, Accounts, TypeOK
  <2> QED
    BY <2>1, Running DEF Quiet, ClosingAgain
<1>2. CASE MayCall("events")
  BY <1>2, Callers DEF Pumping
<1> QED
  BY <1>1, <1>2 DEF Dispatching

-----------------------------------------------------------------------------
(* Most steps happen at rest or while connected, and change nothing of the *)
(* connection and the write side.                                          *)

LEMMA PlacesIdle ==
    ASSUME TypeOK', Idle', Avoids(stack', Quiet)
    PROVE  Places' /\ Context' # "closeError"
<1>1. stack' # <<>> => Avoids(Tail(stack'), Quiet) /\ Head(stack').at \notin Quiet
  BY AvoidsParts DEF TypeOK
<1>2. Context' \notin Quiet
  BY <1>1 DEF Context, Quiet
<1> QED
  BY <1>1, <1>2 DEF Places, Idle, Below, Quiet

LEMMA GoesOn ==
    ASSUME TypeOK, TypeOK', CInv, Idle, UNCHANGED <<connection, writing, txCount, reported>>,
           NotifierBound', Avoids(stack', Quiet),
           emittedBytesWritten => Muffled(stack')
    PROVE  CInv'
<1>1. Places' /\ Context' # "closeError"
  BY PlacesIdle DEF Idle, connection
<1>2. Resources'
  BY <1>1 DEF CInv, Resources, Idle, connection
<1>3. Accounts'
  BY DEF CInv, Accounts, BytesWrittenAccounted, Idle, connection, writing
<1>4. Armed'
  BY DEF CInv, Armed, connection, writing
<1> QED
  BY <1>1, <1>2, <1>3, <1>4 DEF CInv

LEMMA SetEnabledBound ==
    ASSUME TypeOK, NotifierBound, NEW n \in {readNotifier, writeNotifier}, NEW e \in BOOLEAN,
           e => descriptor # -1
    PROVE  /\ SetEnabled(n, e) # NULL =>
                SetEnabled(n, e).fd = descriptor /\ SetEnabled(n, e).fd # -1
           /\ e => Enabled(SetEnabled(n, e))
<1>1. n \in Notifier /\ (n # NULL => n.fd = descriptor /\ n.fd # -1)
  BY DEF TypeOK, NotifierBound
<1>2. CASE n = NULL
  <2>1. NotifierFor(descriptor) \in [fd : Fds \cup {-1}, enabled : BOOLEAN]
    BY DEF NotifierFor, TypeOK
  <2>2. NotifierFor(descriptor) # NULL
    BY <2>1, ConstantsAssumption
  <2> QED
    BY <1>2, <2>2 DEF SetEnabled, NotifierFor, Enabled
<1>3. CASE n # NULL
  <2>1. n \in [fd : Fds \cup {-1}, enabled : BOOLEAN]
    BY <1>1, <1>3 DEF Notifier
  <2>2. /\ [n EXCEPT !.enabled = e] \in [fd : Fds \cup {-1}, enabled : BOOLEAN]
        /\ [n EXCEPT !.enabled = e].fd = n.fd /\ [n EXCEPT !.enabled = e].enabled = e
    BY <2>1
  <2>3. [n EXCEPT !.enabled = e] # NULL
    BY <2>2, ConstantsAssumption
  <2>4. SetEnabled(n, e) = [n EXCEPT !.enabled = e]
    BY <1>1, <1>3 DEF SetEnabled
  <2> QED
    BY <1>1, <1>3, <2>2, <2>3, <2>4 DEF Enabled
<1> QED
  BY <1>2, <1>3

(* The slot of any signal but those of Quiet, on a stack without these *)
LEMMA SlotStack ==
    ASSUME NEW s \in Seq(Record), Avoids(s, Quiet),
           NEW at \in (SlotLabels \cup WaitLabels) \ Quiet
    PROVE  /\ Avoids(Cons(Base(at), s), Quiet)
           /\ \A chop \in Int : Avoids(Cons([Base(at) EXCEPT !.chop = chop], s), Quiet)
           /\ \A b \in BOOLEAN : Avoids(Cons([Base(at) EXCEPT !.forever = b], s), Quiet)
           /\ at \in Silent /\ Muffled(s) => Muffled(Cons(Base(at), s))
           /\ at = "bytesWritten" => Muffled(Cons(Base(at), s))
<1>1. Base(at) \in Record /\ Base(at).at = at
  BY BaseType DEF Base
<1>2. ASSUME NEW chop \in Int
      PROVE  [Base(at) EXCEPT !.chop = chop] \in Record /\ [Base(at) EXCEPT !.chop = chop].at = at
  BY <1>1, BaseType DEF Record
<1>3. ASSUME NEW b \in BOOLEAN
      PROVE  [Base(at) EXCEPT !.forever = b] \in Record /\ [Base(at) EXCEPT !.forever = b].at = at
  BY <1>1, BaseType DEF Record
<1>4. "bytesWritten" \in Silent
  BY DEF Silent
<1> QED
  BY <1>1, <1>2, <1>3, <1>4, AvoidsCons, MuffledCons

(* A wait function goes on at another place *)
LEMMA GotoStack ==
    ASSUME TypeOK, CInv, stack # <<>>, ~ClosingAgain,
           NEW at \in (SlotLabels \cup WaitLabels) \ Quiet
    PROVE  /\ Goto(at) \in Seq(Record) /\ Avoids(Goto(at), Quiet)
           /\ \A b \in BOOLEAN :
                LET record == [Head(stack) EXCEPT !.at = at, !.readyToWrite = b]
                IN  Cons(record, Below) \in Seq(Record) /\ Avoids(Cons(record, Below), Quiet)
           /\ at \in Silent /\ Muffled(Below) => Muffled(Goto(at))
<1>1. Head(stack) \in Record /\ Below \in Seq(Record) /\ Avoids(Below, Quiet)
  BY StackType, Returning
<1>2. [Head(stack) EXCEPT !.at = at] \in Record /\ [Head(stack) EXCEPT !.at = at].at = at
  BY <1>1 DEF Record
<1>3. ASSUME NEW b \in BOOLEAN
      PROVE  /\ [Head(stack) EXCEPT !.at = at, !.readyToWrite = b] \in Record
             /\ [Head(stack) EXCEPT !.at = at, !.readyToWrite = b].at = at
  BY <1>1 DEF Record
<1>4. Goto(at) \in Seq(Record) /\ Avoids(Goto(at), Quiet)
  BY <1>1, <1>2, ConsRecord, AvoidsCons DEF Goto
<1>5. ASSUME NEW b \in BOOLEAN
      PROVE  LET record == [Head(stack) EXCEPT !.at = at, !.readyToWrite = b]
             IN  Cons(record, Below) \in Seq(Record) /\ Avoids(Cons(record, Below), Quiet)
  BY <1>1, <1>3, ConsRecord, AvoidsCons
<1>6. at \in Silent /\ Muffled(Below) => Muffled(Goto(at))
  BY <1>1, <1>2, MuffledCons DEF Goto
<1> QED
  BY <1>4, <1>5, <1>6

-----------------------------------------------------------------------------
(* The code that several actions run *)

LEMMA ReadNotificationStep ==
    ASSUME TypeOK, TypeOK', CInv, Idle, ~emittedBytesWritten,
           NEW rest \in Seq(Record), Avoids(rest, Quiet), ReadNotification(rest)
    PROVE  CInv'
<1>1. UNCHANGED <<connection, writing, txCount, reported>>
  BY DEF ReadNotification, history
<1>2. \A result \in BOOLEAN : Avoids(Resume(result, rest), Quiet)
  BY AvoidsResume DEF Quiet
<1>3. /\ Avoids(Cons(Base("readyRead"), rest), Quiet)
      /\ Avoids(Cons([Base("readError") EXCEPT !.chop = BytesToRead], rest), Quiet)
  BY SlotStack, BytesToReadType DEF SlotLabels, Quiet
<1>4. /\ readNotifier' \in {readNotifier, SetEnabled(readNotifier, FALSE)}
      /\ Avoids(stack', Quiet)
  <2>1. CASE Full
    BY <1>2, <2>1 DEF ReadNotification
  <2>2. CASE ~Full
    <3>1. PICK o : ReadSucceeds(o, rest) \/ ReadFails(o, rest)
      BY <2>2 DEF ReadNotification
    <3>2. CASE ReadSucceeds(o, rest)
      BY <1>2, <1>3, <3>2 DEF ReadSucceeds
    <3>3. CASE ReadFails(o, rest)
      BY <1>3, <3>3 DEF ReadFails
    <3> QED
      BY <3>1, <3>2, <3>3
  <2> QED
    BY <2>1, <2>2
<1>5. NotifierBound'
  <2>1. SetEnabled(readNotifier, FALSE) # NULL =>
            /\ SetEnabled(readNotifier, FALSE).fd = descriptor
            /\ SetEnabled(readNotifier, FALSE).fd # -1
    BY SetEnabledBound DEF CInv, Resources
  <2> QED
    BY <1>1, <1>4, <2>1 DEF CInv, Resources, NotifierBound, connection, writing
<1> QED
  BY <1>1, <1>4, <1>5, GoesOn

LEMMA FinishWriteStep ==
    ASSUME TypeOK, TypeOK', CInv, Idle, ~emittedBytesWritten', reported' = reported,
           NEW rest \in Seq(Record), Avoids(rest, Quiet), FinishWrite(0, rest),
           emittedBytesWritten \/ pendingBytesWritten = 0
    PROVE  CInv'
<1>1. UNCHANGED <<connection, readNotifier, txCount>>
  BY DEF FinishWrite, reading
<1>2. state = "Connected" => reported = FrameSize * (txCount - Len(writeBuffer))
  <2> DEFINE taken == FrameSize * (txCount - Len(writeBuffer))
  <2>1. BytesWrittenAccounted
    BY DEF CInv, Accounts
  <2>2. state = "Connected" =>
            reported + (IF emittedBytesWritten THEN 0 ELSE pendingBytesWritten) = taken
    BY <2>1 DEF BytesWrittenAccounted
  <2> HIDE DEF taken
  <2>3. (IF emittedBytesWritten THEN 0 ELSE pendingBytesWritten) = 0
    OBVIOUS
  <2>4. reported + 0 = reported
    BY DEF TypeOK
  <2>5. state = "Connected" => reported = taken
    BY <2>2, <2>3, <2>4
  <2> QED
    BY <2>5 DEF taken
<1>3. /\ \A result \in BOOLEAN : Avoids(Resume(result, rest), Quiet)
      /\ Avoids(Cons(Base("writeError"), rest), Quiet)
  BY AvoidsResume, SlotStack DEF SlotLabels, Quiet
<1>4. NotifierBound
  BY DEF CInv, Resources
<1>5. CASE writeBuffer = <<>>
  <2>1. /\ writeNotifier' = SetEnabled(writeNotifier, FALSE) /\ pendingBytesWritten' = 0
        /\ stack' = Resume(TRUE, rest) /\ writeBuffer' = writeBuffer
    BY <1>5 DEF FinishWrite
  <2>2. writeNotifier' # NULL => writeNotifier'.fd = descriptor /\ writeNotifier'.fd # -1
    BY <1>4, <2>1, SetEnabledBound
  <2>3. NotifierBound'
    BY <1>1, <1>4, <2>2 DEF NotifierBound, connection
  <2>4. Places' /\ Context' # "closeError"
    BY <1>1, <1>3, <2>1, PlacesIdle DEF Idle, connection
  <2>5. Resources'
    BY <2>4, <1>1, <2>3 DEF CInv, Resources, Idle, connection
  <2>6. Accounts'
    <3>1. reported + 0 = reported
      BY DEF TypeOK
    <3>2. state' \in {"Unconnected", "Connected"} /\ state' = state
      BY <1>1 DEF Idle, connection
    <3> QED
      BY <1>1, <1>2, <2>1, <3>1, <3>2 DEF Accounts, BytesWrittenAccounted
  <2>7. Armed'
    BY <1>5, <2>1 DEF Armed
  <2> QED
    BY <2>4, <2>5, <2>6, <2>7 DEF CInv
<1>6. CASE writeBuffer # <<>>
  <2>1. PICK o \in WriteOutcomes(writeBuffer, IsOpen(descriptor), WriteErrors) :
            IF o.ok
            THEN /\ writeBuffer' = Drop(writeBuffer, o.frames)
                 /\ pendingBytesWritten' = 0 + FrameSize * o.frames
                 /\ writeNotifier' = IF Enabled(writeNotifier) THEN writeNotifier
                                     ELSE SetEnabled(writeNotifier, TRUE)
                 /\ stack' = Resume(TRUE, rest)
            ELSE /\ pendingBytesWritten' = 0
                 /\ stack' = Cons(Base("writeError"), rest)
                 /\ UNCHANGED <<writeBuffer, writeNotifier>>
    BY <1>6 DEF FinishWrite
  <2>2. o.frames \in 0 .. Len(writeBuffer) /\ Len(writeBuffer) \in Nat
    BY WriteOutcomesType DEF TypeOK
  <2>3. Places' /\ Context' # "closeError"
    BY <1>1, <1>3, <2>1, PlacesIdle DEF Idle, connection
  <2>4. CASE o.ok
    <3>1. IsOpen(descriptor)
      <4>1. Len(writeBuffer) # 0
        BY <1>6, EmptySeq DEF TypeOK
      <4>2. o.frames # Len(writeBuffer) => IsOpen(descriptor)
        BY <2>4 DEF WriteOutcomes
      <4>3. o.frames > 0 => 1 \in 1 .. o.frames
        BY <2>2
      <4>4. \A i \in 1 .. o.frames : IsOpen(descriptor)
        BY DEF WriteOutcomes
      <4> QED
        BY <2>2, <4>1, <4>2, <4>3, <4>4
    <3>2. descriptor # -1 /\ state = "Connected"
      <4>1. descriptor # -1
        BY <3>1, ConstantsAssumption DEF IsOpen, TypeOK
      <4> QED
        BY <4>1 DEF CInv, Resources, Idle
    <3>3. /\ writeBuffer' = Drop(writeBuffer, o.frames)
          /\ pendingBytesWritten' = FrameSize * o.frames
          /\ writeNotifier' = IF Enabled(writeNotifier) THEN writeNotifier
                              ELSE SetEnabled(writeNotifier, TRUE)
      <4>1. 0 + FrameSize * o.frames = FrameSize * o.frames
        BY <2>2, FrameSizeAssumption
      <4> QED
        BY <2>1, <2>4, <4>1
    <3>4. /\ Enabled(writeNotifier')
          /\ writeNotifier' # NULL => writeNotifier'.fd = descriptor /\ writeNotifier'.fd # -1
      <4>1. CASE Enabled(writeNotifier)
        BY <1>4, <3>3, <4>1 DEF NotifierBound
      <4>2. CASE ~Enabled(writeNotifier)
        BY <1>4, <3>2, <3>3, <4>2, SetEnabledBound
      <4> QED
        BY <4>1, <4>2
    <3>5. NotifierBound'
      BY <1>1, <1>4, <3>4 DEF NotifierBound, connection
    <3>6. Resources'
      BY <2>3, <1>1, <3>5 DEF CInv, Resources, Idle, connection
    <3>7. Len(writeBuffer') = Len(writeBuffer) - o.frames
      <4>1. \A i \in o.frames + 1 .. Len(writeBuffer) : writeBuffer[i] \in Frame
        <5>1. \A i \in o.frames + 1 .. Len(writeBuffer) : i \in 1 .. Len(writeBuffer)
          BY <2>2
        <5> QED
          BY <5>1, ElementOfSeq DEF TypeOK
      <4>2. Len(SubSeq(writeBuffer, o.frames + 1, Len(writeBuffer)))
                = IF o.frames + 1 <= Len(writeBuffer) THEN Len(writeBuffer) - (o.frames + 1) + 1
                  ELSE 0
        <5>1. o.frames + 1 \in Int /\ Len(writeBuffer) \in Int
          BY <2>2
        <5> QED
          BY <4>1, <5>1, SubSeqProperties
      <4>3. Len(writeBuffer') = Len(SubSeq(writeBuffer, o.frames + 1, Len(writeBuffer)))
        BY <3>3, Zenon DEF Drop
      <4> QED
        BY <2>2, <4>2, <4>3, SMTT(30)
    <3>8. reported + FrameSize * o.frames = FrameSize * (txCount - (Len(writeBuffer) - o.frames))
      <4>1. txCount - (Len(writeBuffer) - o.frames) = (txCount - Len(writeBuffer)) + o.frames
        <5>1. \A a, b, c \in Int : a - (b - c) = (a - b) + c
          OBVIOUS
        <5>2. Len(writeBuffer) \in Int /\ o.frames \in Int
          BY <2>2
        <5>3. txCount \in Int
          BY DEF TypeOK
        <5> QED
          BY <5>1, <5>2, <5>3
      <4>2. FrameSize * ((txCount - Len(writeBuffer)) + o.frames)
                = FrameSize * (txCount - Len(writeBuffer)) + FrameSize * o.frames
        <5>1. \A k, a, b \in Int : k * (a + b) = k * a + k * b
          BY SMTT(60)
        <5>2. Len(writeBuffer) \in Int /\ o.frames \in Int
          BY <2>2
        <5>3. txCount \in Int
          BY DEF TypeOK
        <5>4. txCount - Len(writeBuffer) \in Int /\ FrameSize \in Int
          BY <5>2, <5>3, FrameSizeAssumption
        <5> QED
          BY <5>1, <5>2, <5>4
      <4> QED
        BY <1>2, <3>2, <4>1, <4>2
    <3>9. Accounts'
      BY <1>1, <3>2, <3>3, <3>7, <3>8 DEF Accounts, BytesWrittenAccounted, connection
    <3>10. Armed'
      BY <3>4 DEF Armed, Enabled
    <3> QED
      BY <2>3, <3>6, <3>9, <3>10 DEF CInv
  <2>5. CASE ~o.ok
    <3>1. pendingBytesWritten' = 0 /\ UNCHANGED <<writeBuffer, writeNotifier>>
      BY <2>1, <2>5
    <3>2. Resources'
      BY <2>3, <1>1, <3>1 DEF CInv, Resources, NotifierBound, Idle, connection
    <3>3. Accounts'
      BY <1>1, <1>2, <3>1 DEF Accounts, BytesWrittenAccounted, Idle, connection, TypeOK
    <3>4. Armed'
      BY <1>1, <1>6, <3>1 DEF CInv, Armed, Enabled, connection
    <3> QED
      BY <2>3, <3>2, <3>3, <3>4 DEF CInv
  <2> QED
    BY <2>4, <2>5
<1> QED
  BY <1>5, <1>6

LEMMA CompleteAsyncWriteStep ==
    ASSUME TypeOK, TypeOK', CInv, Idle, ~emittedBytesWritten,
           NEW rest \in Seq(Record), Avoids(rest, Quiet), CompleteAsyncWrite(rest)
    PROVE  CInv'
<1>1. CASE pendingBytesWritten > 0
  <2>1. /\ emittedBytesWritten' = TRUE /\ reported' = reported + pendingBytesWritten
        /\ stack' = Cons(Base("bytesWritten"), rest)
        /\ UNCHANGED <<connection, readNotifier, writeNotifier, writeBuffer, txCount,
                       pendingBytesWritten>>
    BY <1>1 DEF CompleteAsyncWrite, reading
  <2>2. Avoids(stack', Quiet) /\ Muffled(stack')
    BY <2>1, SlotStack DEF SlotLabels, Quiet
  <2>3. state = "Connected"
    BY <1>1 DEF CInv, Accounts, Idle
  <2>4. Places' /\ Context' # "closeError"
    BY <2>1, <2>2, PlacesIdle DEF Idle, connection
  <2>5. Resources'
    BY <2>4, <2>1, <2>3 DEF CInv, Resources, NotifierBound, connection
  <2>6. Accounts'
    <3>1. reported + pendingBytesWritten = FrameSize * (txCount - Len(writeBuffer))
      BY <2>3 DEF CInv, Accounts, BytesWrittenAccounted
    <3>2. reported + pendingBytesWritten + 0 = reported + pendingBytesWritten
      BY DEF TypeOK
    <3> QED
      BY <2>1, <2>2, <2>3, <3>1, <3>2 DEF Accounts, BytesWrittenAccounted, connection
  <2>7. Armed'
    BY <2>1 DEF CInv, Armed, Enabled, connection
  <2> QED
    BY <2>4, <2>5, <2>6, <2>7 DEF CInv
<1>2. CASE ~(pendingBytesWritten > 0)
  <2>1. pendingBytesWritten = 0
    BY <1>2 DEF TypeOK
  <2>2. /\ FinishWrite(pendingBytesWritten, rest)
        /\ UNCHANGED <<emittedBytesWritten, reported>>
    BY <1>2 DEF CompleteAsyncWrite
  <2> QED
    BY <2>1, <2>2, FinishWriteStep
<1> QED
  BY <1>1, <1>2

LEMMA CloseFromStep ==
    ASSUME TypeOK, TypeOK', CInv, state # "Closing",
           NEW rest \in Seq(Record), Avoids(rest, Quiet), CloseFrom(rest),
           emittedBytesWritten => Muffled(rest)
    PROVE  CInv'
<1>1. CASE state = "Unconnected"
  <2>1. stack' = rest /\ UNCHANGED <<connection, reading, writing, txCount, reported>>
    BY <1>1 DEF CloseFrom, history
  <2>2. NotifierBound'
    BY <2>1 DEF CInv, Resources, NotifierBound, connection, reading, writing
  <2> QED
    BY <1>1, <2>1, <2>2, GoesOn DEF Idle
<1>2. CASE state # "Unconnected"
  <2>1. /\ openMode' = {} /\ state' = "Closing" /\ stack' = Cons(Base("closing"), rest)
        /\ UNCHANGED <<descriptor, openFds, readNotifier, writeNotifier, emittedBytesWritten>>
    BY <1>2 DEF CloseFrom, reading, writing
  <2>2. Base("closing") \in Record /\ Base("closing").at = "closing"
    BY BaseType DEF SlotLabels, Base
  <2>3. stack' # <<>> /\ Head(stack').at = "closing" /\ Tail(stack') = rest
    BY <2>1, <2>2, ConsParts
  <2>4. Places'
    BY <2>1, <2>3 DEF Places, Context, Below
  <2>5. Resources'
    BY <1>2, <2>1, <2>3 DEF CInv, Resources, NotifierBound, Context
  <2>6. emittedBytesWritten' => Muffled(stack')
    BY <2>1, <2>2, MuffledCons DEF Silent, Quiet
  <2>7. Accounts'
    BY <2>1, <2>6 DEF Accounts, BytesWrittenAccounted
  <2>8. Armed'
    BY <2>1 DEF Armed
  <2> QED
    BY <2>4, <2>5, <2>7, <2>8 DEF CInv
<1> QED
  BY <1>1, <1>2

(* The end of disconnectFromInterface(), also within a close that failed *)

Leaves(s) == Avoids(s, Quiet) \/ (ClosesAgain /\ Piled(s))

LEMMA PlacesUnconnected ==
    ASSUME TypeOK', state' = "Unconnected", Leaves(stack')
    PROVE  Places'
<1>1. CASE Avoids(stack', Quiet)
  BY <1>1, PlacesIdle DEF Idle
<1>2. CASE ~Avoids(stack', Quiet)
  <2>1. ClosesAgain /\ Piled(stack') /\ stack' \in Seq(Record)
    BY <1>2 DEF Leaves, TypeOK
  <2>2. stack' # <<>>
    <3>1. ASSUME stack' = <<>> PROVE Avoids(stack', Quiet)
      <4>1. Len(stack') = 0
        BY <3>1
      <4> QED
        BY <4>1 DEF Avoids
    <3> QED
      BY <1>2, <3>1
  <2>3. Head(stack').at = "closeError" /\ Piled(Tail(stack'))
    BY <1>2, <2>1, <2>2, PiledParts
  <2>4. Context' = "closeError"
    BY <2>2, <2>3 DEF Context
  <2> QED
    BY <2>1, <2>3, <2>4 DEF Places, ClosingAgain, Below, ClosesAgain
<1> QED
  BY <1>1, <1>2

LEMMA FinishDisconnectStep ==
    ASSUME TypeOK, TypeOK', CInv, NEW rest \in Seq(Record), Leaves(rest),
           emittedBytesWritten => Muffled(rest),
           FinishDisconnect(rest), openMode' = {}, openFds' = {},
           readNotifier' = NULL, writeNotifier' = NULL
    PROVE  CInv'
<1>1. /\ descriptor' = -1 /\ pendingBytesWritten' = 0 /\ state' = "Unconnected"
      /\ emittedBytesWritten' = emittedBytesWritten
  BY DEF FinishDisconnect
<1>2. Places' /\ (emittedBytesWritten => Muffled(stack'))
  <2>1. CASE state = "Unconnected"
    <3>1. stack' = rest
      BY <2>1 DEF FinishDisconnect
    <3> QED
      BY <1>1, <3>1, PlacesUnconnected
  <2>2. CASE state # "Unconnected"
    <3>1. stack' = Cons(Base("unconnected"), rest)
      BY <2>2 DEF FinishDisconnect
    <3>2. Base("unconnected") \in Record /\ Base("unconnected").at = "unconnected"
      BY BaseType DEF SlotLabels, Base
    <3>3. stack' # <<>> /\ Head(stack').at = "unconnected" /\ Tail(stack') = rest
      BY <3>1, <3>2, ConsParts
    <3>4. Places'
      BY <1>1, <3>3 DEF Places, Leaves, ClosingAgain, ClosesAgain, Context, Below
    <3>5. emittedBytesWritten => Muffled(stack')
      BY <3>1, <3>2, MuffledCons DEF Silent
    <3> QED
      BY <3>4, <3>5
  <2> QED
    BY <2>1, <2>2
<1>3. Resources'
  BY <1>1 DEF Resources, NotifierBound, NoNotifiers
<1>4. Accounts'
  BY <1>1, <1>2 DEF Accounts, BytesWrittenAccounted
<1>5. Armed'
  BY <1>1 DEF Armed
<1> QED
  BY <1>2, <1>3, <1>4, <1>5 DEF CInv

LEMMA DisconnectStep ==
    ASSUME SlotsKeepOut, TypeOK, TypeOK', CInv, state = "Closing",
           NEW rest \in Seq(Record), Leaves(rest), emittedBytesWritten => Muffled(rest),
           Disconnect(rest), openMode' = {}
    PROVE  CInv'
<1>1. readNotifier' = NULL /\ writeNotifier' = NULL
  BY DEF Disconnect
<1>2. openFds' = {}
  <2>1. openFds \subseteq {descriptor} /\ openFds \subseteq Fds /\ descriptor \in Fds \cup {-1}
    BY DEF CInv, Resources, TypeOK
  <2>2. CASE descriptor > 0
    BY <2>1, <2>2 DEF Disconnect
  <2>3. CASE ~(descriptor > 0)
    <3>1. openFds' = openFds
      BY <2>3 DEF Disconnect
    <3>2. descriptor \notin Fds
      BY <2>1, <2>3, ConstantsAssumption DEF SlotsKeepOut
    <3> QED
      BY <2>1, <3>1, <3>2
  <2> QED
    BY <2>2, <2>3
<1>3. CASE FinishDisconnect(rest)
  BY <1>1, <1>2, <1>3, FinishDisconnectStep
<1>4. CASE /\ stack' = Cons(Base("closeError"), rest)
           /\ UNCHANGED <<state, descriptor, buffer, readBufferMaxSize, emittedReadyRead,
                          writeBuffer, pendingBytesWritten, writeSequenceStarted,
                          emittedBytesWritten, history>>
  <2>1. Base("closeError") \in Record /\ Base("closeError").at = "closeError"
    BY BaseType DEF SlotLabels, Base
  <2>2. stack' # <<>> /\ Head(stack').at = "closeError" /\ Tail(stack') = rest
    BY <1>4, <2>1, ConsParts
  <2>3. emittedBytesWritten' => Muffled(stack')
    BY <1>4, <2>1, MuffledCons DEF Silent, Quiet
  <2>4. Places'
    BY <1>4, <2>2 DEF Places, Leaves, ClosingAgain, ClosesAgain, Context, Below
  <2>5. Resources'
    BY <1>1, <1>2, <1>4 DEF CInv, Resources, NotifierBound, NoNotifiers
  <2>6. Accounts'
    BY <1>4, <2>3 DEF Accounts, BytesWrittenAccounted
  <2>7. Armed'
    BY <1>4 DEF Armed
  <2> QED
    BY <2>4, <2>5, <2>6, <2>7 DEF CInv
<1> QED
  BY <1>3, <1>4 DEF Disconnect

-----------------------------------------------------------------------------
(* The steps *)

LEMMA StartStep ==
    ASSUME SlotsKeepOut, TypeOK, TypeOK', CInv, NEW mode \in OpenModes, ConnectStarts(mode)
    PROVE  CInv'
<1>1. Idle /\ Avoids(stack, Quiet)
  BY Callers DEF ConnectStarts
<1>2. CASE mode = {}
  <2>1. /\ stack' = Cons(Base("apiError"), stack)
        /\ UNCHANGED <<connection, reading, writing, txCount, reported>>
    BY <1>2 DEF ConnectStarts, history
  <2>2. Avoids(stack', Quiet) /\ (emittedBytesWritten => Muffled(stack'))
    BY <1>1, <2>1, SlotStack DEF SlotLabels, Quiet, Silent, CInv, Accounts, TypeOK
  <2>3. NotifierBound'
    BY <2>1 DEF CInv, Resources, NotifierBound, connection, reading, writing
  <2> QED
    BY <1>1, <2>1, <2>2, <2>3, GoesOn
<1>3. CASE mode # {}
  <2> DEFINE record == [Base("connecting") EXCEPT !.mode = mode]
  <2>1. /\ writeBuffer' = <<>> /\ openMode' = mode /\ state' = "Connecting"
        /\ stack' = Cons(record, stack) /\ txCount' = 0 /\ reported' = 0
        /\ UNCHANGED <<descriptor, openFds, readNotifier, writeNotifier,
                       pendingBytesWritten, emittedBytesWritten>>
    BY <1>3 DEF ConnectStarts
  <2>2. record \in Record /\ record.at = "connecting" /\ record.mode = mode
    <3>1. mode \in SUBSET Access
      BY ConstantsAssumption
    <3> QED
      BY <3>1, BaseType DEF SlotLabels, Base
  <2> HIDE DEF record
  <2>3. stack' # <<>> /\ Head(stack') = record /\ Tail(stack') = stack
    BY <2>1, <2>2, ConsParts DEF TypeOK
  <2>4. state = "Unconnected" /\ descriptor = -1
    BY DEF ConnectStarts, CInv, Resources
  <2>5. Places'
    BY <1>1, <2>1, <2>2, <2>3 DEF Places, Context, Below
  <2>6. NoNotifiers
    BY <2>4 DEF CInv, Resources, NotifierBound, NoNotifiers
  <2>7. Resources'
    BY <1>3, <2>1, <2>2, <2>3, <2>4, <2>6
       DEF CInv, Resources, NotifierBound, NoNotifiers, Context
  <2>8. emittedBytesWritten' => Muffled(stack')
    BY <2>1, <2>2, MuffledCons DEF Silent, Quiet, CInv, Accounts, TypeOK
  <2>9. Accounts'
    BY <2>1, <2>4, <2>8 DEF CInv, Accounts, BytesWrittenAccounted
  <2>10. Armed'
    BY <2>1 DEF Armed
  <2> QED
    BY <2>5, <2>7, <2>9, <2>10 DEF CInv
<1> QED
  BY <1>2, <1>3

(* In the slot of "connecting" nothing is open yet *)
LEMMA AtConnecting ==
    ASSUME TypeOK, CInv, Top("connecting")
    PROVE  /\ Context = "connecting" /\ stack # <<>> /\ state = "Connecting"
           /\ descriptor = -1 /\ openFds = {} /\ openMode # {} /\ NoNotifiers
           /\ reported = 0 /\ txCount = 0 /\ writeBuffer = <<>> /\ pendingBytesWritten = 0
           /\ Head(stack).mode = openMode
           /\ Below \in Seq(Record) /\ Avoids(Below, Quiet) /\ ~ClosingAgain
           /\ emittedBytesWritten => Muffled(Below)
<1>1. Context = "connecting" /\ stack # <<>>
  BY DEF Top, Context
<1>2. state = "Connecting" /\ Head(stack).mode = openMode
  BY <1>1 DEF CInv, Places
<1>3. descriptor = -1 /\ openFds \subseteq {descriptor} /\ openMode # {} /\ NoNotifiers
  BY <1>1, <1>2 DEF CInv, Resources
<1>4. openFds = {}
  BY <1>3, ConstantsAssumption DEF TypeOK
<1>5. reported = 0 /\ txCount = 0 /\ writeBuffer = <<>> /\ pendingBytesWritten = 0
  BY <1>2 DEF CInv, Accounts
<1>6. ~ClosingAgain
  BY <1>1 DEF ClosingAgain
<1> QED
  BY <1>1, <1>2, <1>3, <1>4, <1>5, <1>6, Returning

LEMMA FailStep ==
    ASSUME TypeOK, TypeOK', CInv, Top("connecting"), NEW fd \in Fds \cup {-1},
           descriptor' = fd, openFds' \subseteq {fd}, stack' = Goto("connectError"),
           UNCHANGED <<state, openMode, readNotifier, writing, history>>
    PROVE  CInv'
<1>1. Goto("connectError") \in Seq(Record)
  BY AtConnecting, StackType DEF SlotLabels
<1>2. /\ stack' # <<>> /\ Head(stack').at = "connectError" /\ Tail(stack') = Below
      /\ emittedBytesWritten => Muffled(stack')
  <2> DEFINE record == [Head(stack) EXCEPT !.at = "connectError"]
  <2>1. record \in Record /\ record.at = "connectError" /\ Below \in Seq(Record)
    BY AtConnecting, StackType DEF Record, SlotLabels
  <2>2. stack' = Cons(record, Below)
    BY DEF Goto
  <2> HIDE DEF record
  <2> QED
    BY <2>1, <2>2, ConsParts, MuffledCons, AtConnecting DEF Silent
<1>3. Places'
  BY <1>2, AtConnecting DEF Places, Context, Below
<1>4. Resources'
  BY <1>2, AtConnecting DEF Resources, NotifierBound, NoNotifiers, Context, writing
<1>5. Accounts'
  BY <1>2, AtConnecting DEF Accounts, BytesWrittenAccounted, writing, history
<1>6. Armed'
  BY AtConnecting DEF Armed
<1> QED
  BY <1>3, <1>4, <1>5, <1>6 DEF CInv

LEMMA SucceedStep ==
    ASSUME TypeOK, TypeOK', CInv, NEW fd \in Fds \ openFds, ConnectSucceeds(fd)
    PROVE  CInv'
<1>1. Top("connecting")
  BY DEF ConnectSucceeds
<1>2. /\ descriptor' = fd /\ openFds' = {fd} /\ state' = "Connected"
      /\ readNotifier' \in {NULL, NotifierFor(fd)} /\ stack' = Goto("connected")
      /\ UNCHANGED <<openMode, writing, history>>
  BY <1>1, AtConnecting DEF ConnectSucceeds, NoNotifiers
<1>3. fd # -1 /\ NotifierFor(fd).fd = fd
  BY ConstantsAssumption DEF NotifierFor
<1>4. Avoids(stack', Quiet) /\ (emittedBytesWritten => Muffled(stack'))
  BY <1>1, <1>2, AtConnecting, GotoStack DEF SlotLabels, Quiet, Silent
<1>5. Places' /\ Context' # "closeError"
  BY <1>2, <1>4, PlacesIdle DEF Idle
<1>6. Resources'
  BY <1>5, <1>1, <1>2, <1>3, AtConnecting DEF Resources, NotifierBound, NoNotifiers, writing
<1>7. Accounts'
  <2>1. 0 + 0 = FrameSize * (0 - Len(<<>>))
    BY FrameSizeAssumption
  <2> QED
    BY <1>1, <1>2, <1>4, <2>1, AtConnecting
       DEF Accounts, BytesWrittenAccounted, writing, history
<1>8. Armed'
  BY <1>1, <1>2, AtConnecting DEF Armed, writing
<1> QED
  BY <1>5, <1>6, <1>7, <1>8 DEF CInv

LEMMA WriteStep ==
    ASSUME SlotsKeepOut, TypeOK, TypeOK', CInv, NEW call \in {"write", "writeInvalid"},
           NEW valid, Write(call, valid)
    PROVE  CInv'
<1>1. /\ txCount' = txCount + 1 /\ stack' = stack
      /\ Len(writeBuffer') = Len(writeBuffer) + 1
      /\ writeNotifier' = IF Enabled(writeNotifier) THEN writeNotifier
                          ELSE SetEnabled(writeNotifier, TRUE)
      /\ UNCHANGED <<connection, readNotifier, pendingBytesWritten, emittedBytesWritten,
                     reported>>
  <2>1. writeBuffer' = Append(writeBuffer, [id |-> txCount + 1, valid |-> valid])
    BY DEF Write
  <2>2. Len(writeBuffer') = Len(writeBuffer) + 1
    BY <2>1 DEF TypeOK
  <2> QED
    BY <2>2 DEF Write, reading
<1>2. Idle /\ Avoids(stack, Quiet)
  BY Callers DEF Write
<1>3. state = "Connected" /\ descriptor # -1
  <2>1. state = "Connected"
    BY <1>2 DEF Write, Idle, CInv, Resources
  <2> QED
    BY <2>1, ConstantsAssumption DEF CInv, Resources, TypeOK
<1>4. /\ Enabled(writeNotifier')
      /\ writeNotifier' # NULL => writeNotifier'.fd = descriptor /\ writeNotifier'.fd # -1
  <2>1. NotifierBound
    BY DEF CInv, Resources
  <2>2. CASE Enabled(writeNotifier)
    BY <1>1, <2>1, <2>2 DEF NotifierBound
  <2>3. CASE ~Enabled(writeNotifier)
    BY <1>1, <1>3, <2>1, <2>3, SetEnabledBound
  <2> QED
    BY <2>2, <2>3
<1>5. Places' /\ Context' # "closeError"
  BY <1>1, <1>2, PlacesIdle DEF Idle, connection
<1>6. Resources'
  BY <1>5, <1>1, <1>3, <1>4 DEF CInv, Resources, NotifierBound, connection
<1>7. Accounts'
  <2>1. (txCount + 1) - (Len(writeBuffer) + 1) = txCount - Len(writeBuffer)
    BY DEF TypeOK
  <2> QED
    BY <1>1, <1>3, <2>1 DEF CInv, Accounts, BytesWrittenAccounted, connection
<1>8. Armed'
  BY <1>4 DEF Armed, Enabled
<1> QED
  BY <1>5, <1>6, <1>7, <1>8 DEF CInv

LEMMA ConnectingSteps ==
    ASSUME SlotsKeepOut, TypeOK, TypeOK', CInv, Connecting
    PROVE  CInv'
<1>1. CASE ConnectRefused
  <2>1. Idle /\ Avoids(stack, Quiet)
    BY <1>1, Callers DEF ConnectRefused
  <2>2. Avoids(stack', Quiet) /\ (emittedBytesWritten => Muffled(stack'))
    BY <1>1, <2>1, SlotStack
       DEF ConnectRefused, SlotLabels, Quiet, Silent, CInv, Accounts, TypeOK
  <2>3. /\ UNCHANGED <<connection, writing, txCount, reported>>
        /\ NotifierBound'
    BY <1>1 DEF ConnectRefused, CInv, Resources, NotifierBound, connection, reading, writing,
                history
  <2> QED
    BY <2>1, <2>2, <2>3, GoesOn
<1>2. ASSUME NEW mode \in OpenModes, ConnectStarts(mode) PROVE CInv'
  BY <1>2, StartStep
<1>3. CASE ConnectNoSocket
  <2>1. openFds' \subseteq {-1}
    BY <1>3, AtConnecting DEF ConnectNoSocket
  <2> QED
    BY <1>3, <2>1, FailStep DEF ConnectNoSocket
<1>4. ASSUME NEW fd \in Fds \ openFds, ConnectFails(fd) PROVE CInv'
  <2>1. openFds' \subseteq {fd}
    BY <1>4, AtConnecting DEF ConnectFails
  <2> QED
    BY <1>4, <2>1, FailStep DEF ConnectFails
<1>5. ASSUME NEW fd \in Fds \ openFds, ConnectSucceeds(fd) PROVE CInv'
  BY <1>5, SucceedStep
<1>6. CASE AfterConnectError
  <2>1. Context = "connectError" /\ stack # <<>>
    BY <1>6 DEF AfterConnectError, Top, Context
  <2>2. state # "Closing" /\ ~ClosingAgain
    BY <2>1 DEF CInv, Places, ClosingAgain
  <2> QED
    BY <1>6, <2>1, <2>2, Returning, CloseFromStep DEF AfterConnectError
<1> QED
  BY <1>1, <1>2, <1>3, <1>4, <1>5, <1>6 DEF Connecting

LEMMA ClosingSteps ==
    ASSUME SlotsKeepOut, TypeOK, TypeOK', CInv, Closing
    PROVE  CInv'
<1>1. ASSUME Close, Context # "closeError" PROVE CInv'
  <2>1. Context \notin Quiet
    <3>1. <<Context, "close">> \in AppCalls /\ <<Context, "close">>[1] = Context
      BY <1>1 DEF Close, MayCall
    <3> QED
      BY <1>1, <3>1 DEF SlotsKeepOut, Quiet
  <2>2. state # "Closing"
    BY <2>1 DEF CInv, Places, Quiet
  <2>3. Avoids(stack, Quiet)
    <3>1. CASE stack = <<>>
      <4>1. Len(stack) = 0
        BY <3>1
      <4> QED
        BY <4>1 DEF Avoids
    <3>2. CASE stack # <<>>
      <4>1. ~ClosingAgain
        BY <1>1 DEF Close, ClosingAgain
      <4> QED
        BY <2>1, <3>2, <4>1, Returning, AvoidsParts DEF Context, Below, TypeOK
    <3> QED
      BY <3>1, <3>2
  <2> QED
    BY <1>1, <2>2, <2>3, CloseFromStep DEF Close, CInv, Accounts, TypeOK
<1>2. ASSUME Close, Context = "closeError" PROVE CInv'
  <2>1. <<"closeError", "close">> \in AppCalls
    BY <1>2 DEF Close, MayCall
  <2>2. ClosesAgain
    BY <2>1 DEF ClosesAgain
  <2>3. state = "Closing"
    BY <1>2 DEF Close, CInv, Places
  <2>4. stack # <<>> /\ Head(stack).at = "closeError"
    BY <1>2 DEF Context
  <2>5. Piled(Tail(stack))
    BY <2>4, AvoidsPiles DEF CInv, Places, Below
  <2>6. Piled(stack)
    BY <2>4, <2>5, PiledHead DEF TypeOK
  <2>7. Disconnect(stack) /\ openMode' = {}
    BY <1>2, <2>3 DEF Close, CloseFrom
  <2> QED
    BY <2>2, <2>3, <2>6, <2>7, DisconnectStep DEF Leaves, CInv, Accounts, TypeOK
<1>3. CASE AfterClosing
  <2>1. Context = "closing" /\ state = "Closing" /\ stack # <<>> /\ ~ClosingAgain
    BY <1>3 DEF AfterClosing, Top, Context, CInv, Places, ClosingAgain
  <2>2. Disconnect(Below) /\ openMode' = {}
    BY <1>3, <2>1 DEF AfterClosing, CInv, Resources
  <2> QED
    BY <2>1, <2>2, Returning, DisconnectStep DEF Leaves
<1>4. CASE AfterCloseError
  <2>1. Context = "closeError" /\ stack # <<>>
    BY <1>4 DEF AfterCloseError, Top, Context
  <2>2. NoNotifiers /\ openFds = {} /\ state \in {"Closing", "Unconnected"}
    BY <2>1 DEF CInv, Resources, Places
  <2>3. Leaves(Below)
    BY <2>1 DEF CInv, Places, Leaves, ClosingAgain
  <2>4. /\ FinishDisconnect(Below) /\ openMode' = {} /\ openFds' = {}
        /\ readNotifier' = NULL /\ writeNotifier' = NULL
    BY <1>4, <2>2 DEF AfterCloseError, NoNotifiers, CInv, Resources
  <2> QED
    BY <2>1, <2>3, <2>4, Returning, FinishDisconnectStep
<1> QED
  BY <1>1, <1>2, <1>3, <1>4 DEF Closing

(* A slot that is not Silent returns *)
LEMMA ReturnStep ==
    ASSUME TypeOK, TypeOK', CInv, Context \notin Silent, stack # <<>>, NEW result \in BOOLEAN,
           stack' = Resume(result, Below), readNotifier' = readNotifier,
           UNCHANGED <<connection, writing, history>>
    PROVE  CInv'
<1>1. Idle /\ ~emittedBytesWritten /\ ~ClosingAgain
  <2>1. ~ClosingAgain
    BY DEF ClosingAgain, Silent, Quiet
  <2> QED
    BY <2>1, Running, NotEmitting DEF Silent
<1>2. Avoids(stack', Quiet)
  BY <1>1, Returning, AvoidsResume DEF Quiet
<1>3. NotifierBound'
  BY DEF CInv, Resources, NotifierBound, connection, writing
<1> QED
  BY <1>1, <1>2, <1>3, GoesOn DEF history

LEMMA ReadStep ==
    ASSUME SlotsKeepOut, TypeOK, TypeOK', CInv, NEW call \in {"read", "readAll"}, NEW n,
           Read(call, n)
    PROVE  CInv'
<1>1. Idle /\ Avoids(stack, Quiet)
  BY Callers DEF Read
<1>2. descriptor # -1
  <2>1. state = "Connected"
    BY <1>1 DEF Read, Idle, CInv, Resources
  <2> QED
    BY <2>1, ConstantsAssumption DEF CInv, Resources, TypeOK
<1>3. /\ readNotifier' \in {readNotifier, SetEnabled(readNotifier, TRUE)} /\ stack' = stack
      /\ UNCHANGED <<connection, writing, txCount, reported>>
  BY DEF Read
<1>4. NotifierBound'
  <2>1. SetEnabled(readNotifier, TRUE) # NULL =>
            /\ SetEnabled(readNotifier, TRUE).fd = descriptor
            /\ SetEnabled(readNotifier, TRUE).fd # -1
    BY <1>2, SetEnabledBound DEF CInv, Resources
  <2> QED
    BY <1>3, <2>1 DEF CInv, Resources, NotifierBound, connection, writing
<1> QED
  BY <1>1, <1>3, <1>4, GoesOn DEF CInv, Accounts

LEMMA ReadingSteps ==
    ASSUME SlotsKeepOut, TypeOK, TypeOK', CInv, Reading
    PROVE  CInv'
<1>1. CASE FrameArrives
  <2>1. CInv' <=> CInv
    BY <1>1 DEF FrameArrives, CInv, Places, ClosingAgain, Resources, NotifierBound, NoNotifiers, Accounts,
                BytesWrittenAccounted, Armed, Context, Below, Enabled, connection, writing
  <2> QED
    BY <2>1
<1>2. CASE ReadNotifierEvent
  BY <1>2, EventLoop, ReadNotificationStep DEF ReadNotifierEvent, TypeOK
<1>3. CASE AfterReadyRead
  <2>1. Context \notin Silent /\ stack # <<>>
    BY <1>3 DEF AfterReadyRead, Top, Context, Silent, Quiet
  <2> QED
    BY <1>3, <2>1, ReturnStep DEF AfterReadyRead
<1>4. CASE AfterReadError
  <2>1. Context \notin Silent /\ stack # <<>>
    BY <1>4 DEF AfterReadError, Top, Context, Silent, Quiet
  <2> QED
    BY <1>4, <2>1, ReturnStep DEF AfterReadError
<1>5. CASE ReadFrame
  BY <1>5, ReadStep DEF ReadFrame
<1>6. CASE ReadAll
  BY <1>6, ReadStep DEF ReadAll
<1>7. ASSUME NEW size \in BufferSizes, SetReadBufferSize(size) PROVE CInv'
  <2>1. CInv' <=> CInv
    BY <1>7 DEF SetReadBufferSize, CInv, Places, ClosingAgain, Resources, NotifierBound, NoNotifiers,
                Accounts, BytesWrittenAccounted, Armed, Context, Below, Enabled, connection,
                writing, history
  <2> QED
    BY <2>1
<1> QED
  BY <1>1, <1>2, <1>3, <1>4, <1>5, <1>6, <1>7 DEF Reading

LEMMA WritingSteps ==
    ASSUME SlotsKeepOut, TypeOK, TypeOK', OneEmission, CInv, Writing
    PROVE  CInv'
<1>1. CASE WriteNotifierEvent
  BY <1>1, EventLoop, CompleteAsyncWriteStep DEF WriteNotifierEvent, TypeOK
<1>2. CASE AfterBytesWritten
  <2>1. Context = "bytesWritten" /\ stack # <<>>
    BY <1>2 DEF AfterBytesWritten, Top, Context
  <2>2. Idle /\ Below \in Seq(Record) /\ Avoids(Below, Quiet)
    BY <2>1, Running, Returning DEF Quiet, ClosingAgain
  <2>3. emittedBytesWritten
    <3>1. Len(stack) \in Nat \ {0} /\ Head(stack) = stack[1]
      BY <2>1, EmptySeq, HeadTailProperties DEF TypeOK
    <3>2. Occurs("bytesWritten", stack)
      BY <2>1, <3>1 DEF Occurs, Context
    <3> QED
      BY <3>2 DEF OneEmission, EmissionsOf
  <2> QED
    BY <1>2, <2>1, <2>2, <2>3, FinishWriteStep DEF AfterBytesWritten
<1>3. CASE AfterWriteError
  <2>1. Context \notin Silent /\ stack # <<>>
    BY <1>3 DEF AfterWriteError, Top, Context, Silent, Quiet
  <2> QED
    BY <1>3, <2>1, ReturnStep DEF AfterWriteError, reading
<1>4. CASE WriteFrame
  BY <1>4, WriteStep DEF WriteFrame
<1>5. CASE WriteInvalid
  BY <1>5, WriteStep DEF WriteInvalid
<1>6. CASE Flush
  BY <1>6, Callers, CompleteAsyncWriteStep DEF Flush, Pumping, TypeOK
<1> QED
  BY <1>1, <1>2, <1>3, <1>4, <1>5, <1>6 DEF Writing

LEMMA WaitingSteps ==
    ASSUME SlotsKeepOut, TypeOK, TypeOK', CInv, Waiting
    PROVE  CInv'
<1>1. ASSUME NEW forever \in Forever, WaitForReadyRead(forever) \/ WaitForBytesWritten(forever)
      PROVE  CInv'
  <2>1. PICK at \in {"rr.select", "bw.select"} : Wait(at, forever)
    BY <1>1 DEF WaitForReadyRead, WaitForBytesWritten
  <2>2. Idle /\ Avoids(stack, Quiet) /\ ~emittedBytesWritten
    BY <1>1, Callers DEF WaitForReadyRead, WaitForBytesWritten, Pumping
  <2>3. forever \in BOOLEAN /\ at \in (SlotLabels \cup WaitLabels) \ Quiet
    BY ConstantsAssumption DEF WaitLabels, Quiet
  <2>4. Avoids(stack', Quiet)
    BY <2>1, <2>2, <2>3, SlotStack DEF Wait, TypeOK
  <2>5. /\ UNCHANGED <<connection, writing, txCount, reported>>
        /\ NotifierBound'
    BY <2>1 DEF Wait, CInv, Resources, NotifierBound, connection, reading, writing, history
  <2> QED
    BY <2>2, <2>4, <2>5, GoesOn
<1>2. ASSUME NEW readable \in BOOLEAN, NEW writable \in BOOLEAN, SelectReady(readable, writable)
      PROVE  CInv'
  <2> DEFINE reader == IF Top("rr.select") THEN "rr.read" ELSE "bw.read"
             writer == IF Top("rr.select") THEN "rr.write" ELSE "bw.write"
             record == [Head(stack) EXCEPT !.at = reader, !.readyToWrite = writable]
  <2>1. stack # <<>> /\ Context \notin Silent /\ ~ClosingAgain
    BY <1>2 DEF SelectReady, Context, Silent, Quiet, ClosingAgain
  <2>2. Idle /\ ~emittedBytesWritten
    BY <2>1, Running, NotEmitting DEF Silent
  <2>3. /\ reader \in (SlotLabels \cup WaitLabels) \ Quiet
        /\ writer \in (SlotLabels \cup WaitLabels) \ Quiet
    BY DEF WaitLabels, Quiet
  <2>4. \/ ReadNotification(Cons(record, Below))
        \/ CompleteAsyncWrite(Goto(writer))
    BY <1>2 DEF SelectReady
  <2> HIDE DEF reader, writer
  <2>5. /\ Cons(record, Below) \in Seq(Record) /\ Avoids(Cons(record, Below), Quiet)
        /\ Goto(writer) \in Seq(Record) /\ Avoids(Goto(writer), Quiet)
    BY <2>1, <2>3, GotoStack
  <2> HIDE DEF record
  <2> QED
    BY <2>2, <2>4, <2>5, ReadNotificationStep, CompleteAsyncWriteStep
<1>3. CASE SelectFails
  <2>1. stack # <<>> /\ Context \notin Silent /\ ~ClosingAgain
    BY <1>3 DEF SelectFails, Context, Silent, Quiet, ClosingAgain
  <2>2. Idle /\ ~emittedBytesWritten /\ Below \in Seq(Record) /\ Avoids(Below, Quiet)
    BY <2>1, Running, NotEmitting, Returning DEF Silent
  <2>3. Avoids(stack', Quiet)
    BY <1>3, <2>2, SlotStack DEF SelectFails, SlotLabels, Quiet
  <2>4. /\ UNCHANGED <<connection, writing, txCount, reported>>
        /\ NotifierBound'
    BY <1>3 DEF SelectFails, CInv, Resources, NotifierBound, connection, reading, writing,
                history
  <2> QED
    BY <2>2, <2>3, <2>4, GoesOn
<1>4. CASE WaitLoop
  <2>1. stack # <<>> /\ Context \notin Silent /\ ~ClosingAgain
    BY <1>4 DEF WaitLoop, Top, Context, Silent, Quiet, ClosingAgain
  <2>2. Idle /\ ~emittedBytesWritten /\ Below \in Seq(Record) /\ Avoids(Below, Quiet)
    BY <2>1, Running, NotEmitting, Returning DEF Silent
  <2>3. Avoids(Goto("rr.select"), Quiet)
    BY <2>1, GotoStack DEF WaitLabels, Quiet
  <2>4. /\ UNCHANGED <<connection, writing, txCount, reported>>
        /\ Avoids(stack', Quiet) /\ NotifierBound'
    BY <1>4, <2>2, <2>3
       DEF WaitLoop, CInv, Resources, NotifierBound, connection, reading, writing, history
  <2> QED
    BY <2>2, <2>4, GoesOn
<1>5. CASE WaitAfterRead
  <2>1. stack # <<>> /\ Context \notin Silent /\ ~ClosingAgain
    BY <1>5 DEF WaitAfterRead, Top, Context, Silent, Quiet, ClosingAgain
  <2>2. Idle /\ ~emittedBytesWritten
    BY <2>1, Running, NotEmitting DEF Silent
  <2>3. /\ Goto("bw.write") \in Seq(Record) /\ Avoids(Goto("bw.write"), Quiet)
        /\ Avoids(Goto("bw.select"), Quiet)
    BY <2>1, GotoStack DEF WaitLabels, Quiet
  <2>4. CASE Head(stack).readyToWrite
    BY <1>5, <2>2, <2>3, <2>4, CompleteAsyncWriteStep DEF WaitAfterRead
  <2>5. CASE ~Head(stack).readyToWrite
    <3>1. /\ UNCHANGED <<connection, writing, txCount, reported>>
          /\ Avoids(stack', Quiet) /\ NotifierBound'
      BY <1>5, <2>3, <2>5
         DEF WaitAfterRead, CInv, Resources, NotifierBound, connection, reading, writing,
             history
    <3> QED
      BY <2>2, <3>1, GoesOn
  <2> QED
    BY <2>4, <2>5
<1> QED
  BY <1>1, <1>2, <1>3, <1>4, <1>5 DEF Waiting

-----------------------------------------------------------------------------
LEMMA InitCInv == Init => CInv
<1> SUFFICES ASSUME Init PROVE CInv
  OBVIOUS
<1>1. Places
  BY DEF Init, Places, Context
<1>2. Resources
  BY DEF Init, Resources, NotifierBound, Context
<1>3. Accounts
  BY DEF Init, Accounts, BytesWrittenAccounted
<1>4. Armed
  BY DEF Init, Armed
<1> QED
  BY <1>1, <1>2, <1>3, <1>4 DEF CInv

LEMMA NextCInv ==
    ASSUME SlotsKeepOut, TypeOK, TypeOK', OneEmission, CInv, Next
    PROVE  CInv'
<1>1. CASE ClearError
  <2>1. Idle /\ Avoids(stack, Quiet)
    BY <1>1, Callers DEF ClearError
  <2>2. Avoids(stack', Quiet) /\ (emittedBytesWritten => Muffled(stack'))
    BY <1>1, <2>1, SlotStack
       DEF ClearError, SlotLabels, Quiet, Silent, CInv, Accounts, TypeOK
  <2>3. /\ UNCHANGED <<connection, writing, txCount, reported>>
        /\ NotifierBound'
    BY <1>1 DEF ClearError, CInv, Resources, NotifierBound, connection, reading, writing,
                history
  <2> QED
    BY <2>1, <2>2, <2>3, GoesOn
<1>2. CASE SlotReturns
  <2>1. /\ stack # <<>> /\ Context # "bytesWritten"
        /\ Context \notin Quiet \cup {"connectError"}
    BY <1>2 DEF SlotReturns, Context, Quiet
  <2>2. emittedBytesWritten => Muffled(Below)
    BY <2>1, Returning
  <2>3. /\ stack' = Below /\ UNCHANGED <<connection, writing, txCount, reported>>
        /\ NotifierBound' /\ UNCHANGED <<readNotifier, writeNotifier>>
    BY <1>2 DEF SlotReturns, CInv, Resources, NotifierBound, connection, reading, writing,
                history
  <2>4. CASE ~ClosingAgain
    <3>1. Idle /\ Avoids(Below, Quiet)
      BY <2>1, <2>4, Running, Returning
    <3> QED
      BY <2>2, <2>3, <3>1, GoesOn
  <2>5. CASE ClosingAgain
    <3>1. state = "Unconnected" /\ Leaves(Below)
      BY <2>1, <2>5 DEF ClosingAgain, CInv, Places, Leaves, Quiet
    <3>2. Places'
      BY <2>3, <3>1, PlacesUnconnected DEF connection
    <3>3. NoNotifiers' /\ openFds' = {}
      <4>1. descriptor = -1 /\ NotifierBound /\ openFds \subseteq {descriptor}
        BY <3>1 DEF CInv, Resources
      <4>2. openFds = {}
        BY <4>1, ConstantsAssumption DEF TypeOK
      <4> QED
        BY <2>3, <4>1, <4>2 DEF NotifierBound, NoNotifiers, connection
    <3>4. Resources'
      BY <2>3, <3>1, <3>3 DEF CInv, Resources, connection
    <3>5. Accounts'
      BY <2>2, <2>3, <3>1 DEF CInv, Accounts, BytesWrittenAccounted, connection, writing
    <3>6. Armed'
      BY <2>3, <3>1 DEF Armed, connection
    <3> QED
      BY <3>2, <3>4, <3>5, <3>6 DEF CInv
  <2> QED
    BY <2>4, <2>5
<1> QED
  BY <1>1, <1>2, ConnectingSteps, ClosingSteps, ReadingSteps, WritingSteps, WaitingSteps
     DEF Next

(* The inductive invariant holds of every application that keeps out.      *)
THEOREM ConnectionInvariant == ASSUME SlotsKeepOut PROVE Spec => []CInv
<1>1. TypeOK /\ TypeOK' /\ OneEmission /\ CInv /\ [Next]_vars => CInv'
  <2> SUFFICES ASSUME TypeOK, TypeOK', OneEmission, CInv, [Next]_vars PROVE CInv'
    OBVIOUS
  <2>1. CASE UNCHANGED vars
    BY <2>1 DEF CInv, Places, ClosingAgain, Resources, NotifierBound, NoNotifiers, Accounts,
       BytesWrittenAccounted, Armed, Context, Below, Enabled, vars, connection, reading,
       writing, history
  <2> QED
    BY <2>1, NextCInv
<1> QED
  BY <1>1, InitCInv, TypeCorrect, NoNestedEmission, PTL DEF Spec

-----------------------------------------------------------------------------
(* The properties *)

(* Connecting and closing always end in a stable state with descriptor and *)
(* open mode agreeing, and leave no other descriptor open, however connects *)
(* and closes fail and whatever the slots call.                            *)
THEOREM LifecycleHolds == ASSUME SlotsKeepOut PROVE Spec => []Lifecycle
<1>1. TypeOK /\ CInv => Lifecycle
  <2> SUFFICES ASSUME TypeOK, CInv PROVE Lifecycle
    OBVIOUS
  <2>1. openFds \subseteq {descriptor}
    BY DEF CInv, Resources
  <2>2. ASSUME AtRest
        PROVE  /\ state \in {"Unconnected", "Connected"}
               /\ state = "Connected" <=> descriptor # -1
               /\ state = "Connected" <=> openMode # {}
               /\ descriptor # -1 => IsOpen(descriptor)
    <3>1. Idle
      BY <2>2, Running DEF AtRest, Context, Quiet, ClosingAgain
    <3>2. CASE state = "Unconnected"
      BY <3>2 DEF CInv, Resources
    <3>3. CASE state = "Connected"
      <4>1. descriptor \in openFds /\ openMode # {}
        BY <3>3 DEF CInv, Resources
      <4> QED
        BY <3>3, <4>1, ConstantsAssumption DEF IsOpen, TypeOK
    <3> QED
      BY <3>1, <3>2, <3>3 DEF Idle
  <2> QED
    BY <2>1, <2>2 DEF Lifecycle
<1> QED
  BY <1>1, TypeCorrect, ConnectionInvariant, PTL

(* A notifier watches the current descriptor, never a former one and never *)
(* none.                                                                   *)
THEOREM NotifiersFollowDescriptor == ASSUME SlotsKeepOut PROVE Spec => []NotifierBound
<1>1. CInv => NotifierBound
  BY DEF CInv, Resources
<1> QED
  BY <1>1, ConnectionInvariant, PTL

(* bytesWritten() reports each byte that left the write buffer exactly     *)
(* once.                                                                   *)
THEOREM BytesReportedOnce == ASSUME SlotsKeepOut PROVE Spec => []BytesWrittenAccounted
<1>1. CInv => BytesWrittenAccounted
  BY DEF CInv, Accounts
<1> QED
  BY <1>1, ConnectionInvariant, PTL

(* Nothing that waits to be sent or reported is left to a disarmed write   *)
(* notifier.                                                               *)
THEOREM WriteStaysArmed == ASSUME SlotsKeepOut PROVE Spec => []WriteArmed
<1>1. CInv => WriteArmed
  BY DEF CInv, Armed, WriteArmed
<1> QED
  BY <1>1, ConnectionInvariant, PTL

-----------------------------------------------------------------------------
(* Reception.  Without errors of read() only a full buffer disarms the     *)
(* read notifier, and then a limit is set and there is something to read.  *)

Receiving ==
    /\ Avoids(stack, {"readError"})
    /\ state = "Connected" /\ "ReadOnly" \in openMode /\ ~Enabled(readNotifier)
         => buffer # <<>> /\ readBufferMaxSize # 0

(* What the steps do to the stack, if it has no slot of a read error *)
LEMMA NoErrorStack ==
    ASSUME NEW s \in Seq(Record), Avoids(s, {"readError"}),
           NEW at \in (SlotLabels \cup WaitLabels) \ {"readError"}
    PROVE  /\ Avoids(Cons(Base(at), s), {"readError"})
           /\ \A mode \in SUBSET Access :
                 Avoids(Cons([Base(at) EXCEPT !.mode = mode], s), {"readError"})
           /\ \A b \in BOOLEAN :
                 Avoids(Cons([Base(at) EXCEPT !.forever = b], s), {"readError"})
           /\ \A r \in BOOLEAN : Avoids(Resume(r, s), {"readError"})
<1>1. Base(at) \in Record /\ Base(at).at = at
  BY BaseType DEF Base
<1>2. ASSUME NEW mode \in SUBSET Access
      PROVE  [Base(at) EXCEPT !.mode = mode] \in Record /\ [Base(at) EXCEPT !.mode = mode].at = at
  BY <1>1, BaseType DEF Record
<1>3. ASSUME NEW b \in BOOLEAN
      PROVE  [Base(at) EXCEPT !.forever = b] \in Record /\ [Base(at) EXCEPT !.forever = b].at = at
  BY <1>1, BaseType DEF Record
<1>4. \A r \in BOOLEAN : Avoids(Resume(r, s), {"readError"})
  BY AvoidsResume
<1> QED
  BY <1>1, <1>2, <1>3, <1>4, AvoidsCons

LEMMA NoErrorBelow ==
    ASSUME TypeOK, stack # <<>>, Avoids(stack, {"readError"})
    PROVE  /\ Below \in Seq(Record) /\ Avoids(Below, {"readError"})
           /\ Head(stack).at # "readError"
           /\ \A at \in (SlotLabels \cup WaitLabels) \ {"readError"} :
                 Goto(at) \in Seq(Record) /\ Avoids(Goto(at), {"readError"})
           /\ \A at \in (SlotLabels \cup WaitLabels) \ {"readError"}, b \in BOOLEAN :
                 LET record == [Head(stack) EXCEPT !.at = at, !.readyToWrite = b]
                 IN  /\ Cons(record, Below) \in Seq(Record)
                     /\ Avoids(Cons(record, Below), {"readError"})
<1>1. Head(stack) \in Record /\ Below \in Seq(Record)
  BY StackType
<1>2. Avoids(Below, {"readError"}) /\ Head(stack).at # "readError"
  BY AvoidsParts DEF Below, TypeOK
<1>3. ASSUME NEW at \in (SlotLabels \cup WaitLabels) \ {"readError"}
      PROVE  Goto(at) \in Seq(Record) /\ Avoids(Goto(at), {"readError"})
  <2>1. [Head(stack) EXCEPT !.at = at] \in Record /\ [Head(stack) EXCEPT !.at = at].at = at
    BY <1>1 DEF Record
  <2> QED
    BY <1>1, <1>2, <2>1, ConsRecord, AvoidsCons DEF Goto
<1>4. ASSUME NEW at \in (SlotLabels \cup WaitLabels) \ {"readError"}, NEW b \in BOOLEAN
      PROVE  LET record == [Head(stack) EXCEPT !.at = at, !.readyToWrite = b]
             IN  /\ Cons(record, Below) \in Seq(Record)
                 /\ Avoids(Cons(record, Below), {"readError"})
  <2>1. /\ [Head(stack) EXCEPT !.at = at, !.readyToWrite = b] \in Record
        /\ [Head(stack) EXCEPT !.at = at, !.readyToWrite = b].at = at
    BY <1>1 DEF Record
  <2> QED
    BY <1>1, <1>2, <2>1, ConsRecord, AvoidsCons
<1> QED
  BY <1>1, <1>2, <1>3, <1>4

LEMMA ReceivingRead ==
    ASSUME ReadsGoWell, TypeOK, TypeOK', Receiving, IsOpen(descriptor),
           NEW rest \in Seq(Record), Avoids(rest, {"readError"}), ReadNotification(rest)
    PROVE  Receiving'
<1>1. UNCHANGED <<connection, readBufferMaxSize>>
  BY DEF ReadNotification
<1>2. /\ \A r \in BOOLEAN : Avoids(Resume(r, rest), {"readError"})
      /\ Avoids(Cons(Base("readyRead"), rest), {"readError"})
  BY NoErrorStack DEF SlotLabels
<1>3. CASE Full
  <2>1. stack' = Resume(FALSE, rest) /\ buffer' = buffer
    BY <1>3 DEF ReadNotification
  <2>2. buffer # <<>> /\ readBufferMaxSize # 0
    BY <1>3 DEF Full
  <2> QED
    BY <1>1, <1>2, <2>1, <2>2 DEF Receiving
<1>4. CASE ~Full
  <2>1. PICK o \in ReadOutcomes(rxQueue, IsOpen(descriptor), BytesToRead, ReadErrors) :
            IF o.error = "none" THEN ReadSucceeds(o, rest) ELSE ReadFails(o, rest)
    BY <1>4 DEF ReadNotification
  <2>2. o.error = "none"
    BY DEF ReadOutcomes, ReadsGoWell
  <2> DEFINE received == buffer \o Bytes(First(rxQueue, o.frames))
  <2>3. /\ buffer' = received
        /\ readNotifier' = IF readBufferMaxSize # 0 /\ Len(received) = readBufferMaxSize
                           THEN SetEnabled(readNotifier, FALSE) ELSE readNotifier
        /\ stack' \in {Cons(Base("readyRead"), rest), Resume(TRUE, rest)}
    BY <2>1, <2>2 DEF ReadSucceeds
  <2>4. received \in Seq(Nat) /\ Len(received) \in Nat /\ Len(received) >= Len(buffer)
    <3>1. o.frames \in 0 .. Len(rxQueue)
      BY ReadOutcomesType
    <3>2. Bytes(First(rxQueue, o.frames)) \in Seq(Nat \ {0})
      <4>1. rxQueue \in Seq(Nat \ {0}) /\ Len(rxQueue) \in Nat
        BY DEF TypeOK
      <4>2. o.frames \in Int /\ o.frames <= Len(rxQueue)
        BY <3>1, <4>1
      <4>3. First(rxQueue, o.frames) \in Seq(Nat \ {0})
        BY <4>1, <4>2, CutType
      <4> QED
        BY <4>3, BytesType
    <3>3. Bytes(First(rxQueue, o.frames)) \in Seq(Nat)
      BY <3>2, SeqMonotonic
    <3> DEFINE taken == Bytes(First(rxQueue, o.frames))
    <3> HIDE DEF taken
    <3>4. buffer \in Seq(Nat) /\ taken \in Seq(Nat)
      BY <3>3 DEF TypeOK, taken
    <3>5. buffer \o taken \in Seq(Nat) /\ Len(buffer \o taken) = Len(buffer) + Len(taken)
      BY <3>4, ConcatProperties
    <3>6. Len(buffer) \in Nat /\ Len(taken) \in Nat
      BY <3>4
    <3>7. received = buffer \o taken
      BY DEF taken
    <3> HIDE DEF received
    <3>8. Len(received) = Len(buffer) + Len(taken) /\ received \in Seq(Nat)
      BY <3>5, <3>7
    <3> QED
      BY <3>6, <3>8
  <2> HIDE DEF received
  <2>5. CASE readBufferMaxSize # 0 /\ Len(received) = readBufferMaxSize
    <3>1. received # <<>>
      BY <2>5
    <3> QED
      BY <1>1, <1>2, <2>3, <2>5, <3>1 DEF Receiving
  <2>6. CASE ~(readBufferMaxSize # 0 /\ Len(received) = readBufferMaxSize)
    <3>1. buffer # <<>> => received # <<>>
      BY <2>4, EmptySeq DEF TypeOK
    <3> QED
      BY <1>1, <1>2, <2>3, <2>6, <3>1 DEF Receiving, connection, Enabled
  <2> QED
    BY <2>5, <2>6
<1> QED
  BY <1>3, <1>4

(* All the code of the write side leaves the reading alone *)
LEMMA ReceivingWrite ==
    ASSUME TypeOK, Receiving, NEW rest \in Seq(Record), Avoids(rest, {"readError"}),
           CompleteAsyncWrite(rest) \/ FinishWrite(0, rest)
    PROVE  Receiving'
<1>1. UNCHANGED <<connection, reading>>
  BY DEF CompleteAsyncWrite, FinishWrite
<1>2. stack' \in {Cons(Base("bytesWritten"), rest), Cons(Base("writeError"), rest),
                  Resume(TRUE, rest)}
  <2>1. ASSUME NEW pending, FinishWrite(pending, rest)
        PROVE  stack' \in {Cons(Base("writeError"), rest), Resume(TRUE, rest)}
    BY <2>1 DEF FinishWrite
  <2> QED
    BY <2>1 DEF CompleteAsyncWrite
<1>3. Avoids(stack', {"readError"})
  BY <1>2, NoErrorStack DEF SlotLabels
<1> QED
  BY <1>1, <1>3 DEF Receiving, connection, reading, Enabled

LEMMA ReceivingAppRead ==
    ASSUME TypeOK, Receiving, NEW call, NEW n \in 0 .. Len(buffer), Read(call, n),
           descriptor # -1, NotifierBound
    PROVE  Receiving'
<1>1. /\ buffer' = Drop(buffer, n)
      /\ readNotifier' = IF n = Len(buffer) /\ readBufferMaxSize # 0 /\ ~Enabled(readNotifier)
                         THEN SetEnabled(readNotifier, TRUE) ELSE readNotifier
      /\ UNCHANGED <<connection, readBufferMaxSize, stack>>
  BY DEF Read
<1>2. CASE n = Len(buffer) /\ readBufferMaxSize # 0 /\ ~Enabled(readNotifier)
  <2>1. Enabled(readNotifier')
    BY <1>1, <1>2, SetEnabledBound
  <2> QED
    BY <1>1, <2>1 DEF Receiving, Enabled
<1>3. CASE ~(n = Len(buffer) /\ readBufferMaxSize # 0 /\ ~Enabled(readNotifier))
  <2>1. readNotifier' = readNotifier
    BY <1>1, <1>3
  <2>2. n # Len(buffer) => buffer' # <<>>
    <3>1. ASSUME n # Len(buffer) PROVE Len(SubSeq(buffer, n + 1, Len(buffer))) # 0
      <4>1. \A i \in n + 1 .. Len(buffer) : buffer[i] \in Nat
        <5>1. \A i \in n + 1 .. Len(buffer) : i \in 1 .. Len(buffer)
          BY DEF TypeOK
        <5> QED
          BY <5>1, ElementOfSeq DEF TypeOK
      <4>2. Len(SubSeq(buffer, n + 1, Len(buffer)))
                = IF n + 1 <= Len(buffer) THEN Len(buffer) - (n + 1) + 1 ELSE 0
        <5>1. n + 1 \in Int /\ Len(buffer) \in Int
          BY DEF TypeOK
        <5> QED
          BY <4>1, <5>1, SubSeqProperties
      <4> QED
        BY <3>1, <4>2 DEF TypeOK
    <3> QED
      BY <1>1, <3>1 DEF Drop
  <2> QED
    BY <1>1, <1>3, <2>1, <2>2 DEF Receiving, connection, Enabled
<1> QED
  BY <1>2, <1>3

LEMMA ReceivingClose ==
    ASSUME TypeOK, Receiving, state # "Closing", NEW rest \in Seq(Record),
           Avoids(rest, {"readError"}), CloseFrom(rest)
    PROVE  Receiving'
<1>1. CASE state = "Unconnected"
  BY <1>1 DEF CloseFrom, Receiving, connection
<1>2. CASE state # "Unconnected"
  <2>1. state' = "Closing" /\ stack' = Cons(Base("closing"), rest)
    BY <1>2 DEF CloseFrom
  <2>2. Avoids(stack', {"readError"})
    BY <2>1, NoErrorStack DEF SlotLabels
  <2> QED
    BY <2>1, <2>2 DEF Receiving
<1> QED
  BY <1>1, <1>2

LEMMA ReceivingConnection ==
    ASSUME SlotsKeepOut, TypeOK, CInv, Receiving, Connecting \/ Closing
    PROVE  Receiving'
<1>1. stack \in Seq(Record) /\ Avoids(stack, {"readError"})
  BY DEF TypeOK, Receiving
<1>2. CASE ConnectRefused
  <2>1. Avoids(stack', {"readError"})
    BY <1>1, <1>2, NoErrorStack DEF ConnectRefused, SlotLabels
  <2> QED
    BY <1>2, <2>1 DEF ConnectRefused, Receiving, Enabled, connection, reading
<1>3. ASSUME NEW mode \in OpenModes, ConnectStarts(mode) PROVE Receiving'
  <2>1. mode \in SUBSET Access
    BY ConstantsAssumption
  <2>2. stack' \in {Cons(Base("apiError"), stack),
                    Cons([Base("connecting") EXCEPT !.mode = mode], stack)}
    BY <1>3 DEF ConnectStarts
  <2>3. Avoids(stack', {"readError"})
    BY <1>1, <2>1, <2>2, NoErrorStack DEF SlotLabels
  <2>4. state' # "Connected"
    BY <1>3 DEF ConnectStarts, connection
  <2> QED
    BY <2>3, <2>4 DEF Receiving
<1>4. ASSUME NEW fd, ConnectNoSocket \/ ConnectFails(fd) PROVE Receiving'
  <2>1. /\ stack' = Goto("connectError") /\ state' = "Connecting"
    BY <1>4, AtConnecting DEF ConnectNoSocket, ConnectFails
  <2>2. stack # <<>>
    BY <1>4 DEF ConnectNoSocket, ConnectFails, Top
  <2>3. Avoids(stack', {"readError"})
    BY <1>1, <2>1, <2>2, NoErrorBelow DEF SlotLabels
  <2> QED
    BY <2>1, <2>3 DEF Receiving
<1>5. ASSUME NEW fd \in Fds \ openFds, ConnectSucceeds(fd) PROVE Receiving'
  <2>1. Top("connecting") /\ stack # <<>>
    BY <1>5 DEF ConnectSucceeds, Top
  <2>2. /\ stack' = Goto("connected") /\ openMode' = openMode
        /\ readNotifier' = IF "ReadOnly" \notin openMode THEN NULL ELSE NotifierFor(fd)
    BY <1>5, <2>1, AtConnecting DEF ConnectSucceeds, NoNotifiers
  <2>3. Avoids(stack', {"readError"})
    BY <1>1, <2>1, <2>2, NoErrorBelow DEF SlotLabels
  <2>4. Enabled(NotifierFor(fd))
    <3>1. NotifierFor(fd) \in [fd : Fds \cup {-1}, enabled : BOOLEAN]
      BY DEF NotifierFor
    <3>2. NotifierFor(fd) # NULL
      BY <3>1, ConstantsAssumption
    <3> QED
      BY <3>2 DEF NotifierFor, Enabled
  <2> QED
    BY <2>2, <2>3, <2>4 DEF Receiving, Enabled
<1>6. CASE AfterConnectError
  <2>1. stack # <<>> /\ state # "Closing"
    BY <1>6 DEF AfterConnectError, Top, Context, CInv, Places
  <2> QED
    BY <1>1, <1>6, <2>1, NoErrorBelow, ReceivingClose DEF AfterConnectError
<1>7. CASE Close
  <2>1. CASE state # "Closing"
    BY <1>1, <1>7, <2>1, ReceivingClose DEF Close
  <2>2. CASE state = "Closing"
    <3>1. Disconnect(stack)
      BY <1>7, <2>2 DEF Close, CloseFrom
    <3>2. /\ stack' \in {Cons(Base("closeError"), stack), Cons(Base("unconnected"), stack)}
          /\ state' # "Connected"
      BY <2>2, <3>1 DEF Disconnect, FinishDisconnect
    <3>3. Avoids(stack', {"readError"})
      BY <1>1, <3>2, NoErrorStack DEF SlotLabels
    <3> QED
      BY <3>2, <3>3 DEF Receiving
  <2> QED
    BY <2>1, <2>2
<1>8. CASE AfterClosing \/ AfterCloseError
  <2>1. stack # <<>> /\ state \in {"Closing", "Unconnected"}
    BY <1>8 DEF AfterClosing, AfterCloseError, Top, Context, CInv, Places
  <2>2. /\ stack' \in {Cons(Base("closeError"), Below), Cons(Base("unconnected"), Below),
                        Below}
        /\ state' # "Connected"
    BY <1>8, <2>1 DEF AfterClosing, AfterCloseError, Disconnect, FinishDisconnect
  <2>3. Avoids(stack', {"readError"})
    BY <1>1, <2>1, <2>2, NoErrorBelow, NoErrorStack DEF SlotLabels
  <2> QED
    BY <2>2, <2>3 DEF Receiving
<1> QED
  BY <1>2, <1>3, <1>4, <1>5, <1>6, <1>7, <1>8 DEF Connecting, Closing

LEMMA ReceivingReading ==
    ASSUME SlotsKeepOut, ReadsGoWell, TypeOK, TypeOK', CInv, Receiving, Reading
    PROVE  Receiving'
<1>1. /\ stack \in Seq(Record) /\ Avoids(stack, {"readError"}) /\ Len(buffer) \in Nat
      /\ NotifierBound
  BY DEF TypeOK, Receiving, CInv, Resources
<1>2. CASE FrameArrives
  BY <1>2 DEF FrameArrives, Receiving, Enabled, connection
<1>3. CASE ReadNotifierEvent
  <2>1. IsOpen(descriptor)
    BY <1>1, <1>3 DEF ReadNotifierEvent, Enabled, NotifierBound, Readable
  <2> QED
    BY <1>1, <1>3, <2>1, ReceivingRead DEF ReadNotifierEvent
<1>4. CASE AfterReadyRead
  <2>1. Avoids(stack', {"readError"})
    <3>1. stack # <<>> /\ stack' = Resume(TRUE, Below)
      BY <1>4 DEF AfterReadyRead, Top
    <3>2. "readyRead" \in (SlotLabels \cup WaitLabels) \ {"readError"}
      BY DEF SlotLabels
    <3> QED
      BY <1>1, <3>1, <3>2, NoErrorBelow, NoErrorStack
  <2> QED
    BY <1>4, <2>1 DEF AfterReadyRead, Receiving, Enabled, connection
<1>5. CASE AfterReadError
  BY <1>1, <1>5, NoErrorBelow DEF AfterReadError, Top
<1>6. ASSUME NEW call \in {"read", "readAll"}, NEW n \in 0 .. Len(buffer), Read(call, n)
      PROVE  Receiving'
  <2>1. Idle
    BY <1>6, Callers DEF Read
  <2>2. state = "Connected"
    BY <1>6, <2>1 DEF Read, Idle, CInv, Resources
  <2>3. descriptor # -1
    BY <2>2, ConstantsAssumption DEF CInv, Resources, TypeOK
  <2> QED
    BY <1>1, <1>6, <2>3, ReceivingAppRead
<1>7. CASE ReadFrame
  <2>1. (IF Len(buffer) < FrameSize THEN Len(buffer) ELSE FrameSize) \in 0 .. Len(buffer)
    BY <1>1, FrameSizeAssumption
  <2> QED
    BY <1>6, <1>7, <2>1 DEF ReadFrame
<1>8. CASE ReadAll
  <2>1. Len(buffer) \in 0 .. Len(buffer)
    BY <1>1
  <2> QED
    BY <1>6, <1>8, <2>1 DEF ReadAll
<1>9. ASSUME NEW size \in BufferSizes, SetReadBufferSize(size) PROVE Receiving'
  BY <1>9 DEF SetReadBufferSize, ReadsGoWell, Receiving, Enabled, connection
<1> QED
  BY <1>2, <1>3, <1>4, <1>5, <1>7, <1>8, <1>9 DEF Reading

LEMMA ReceivingElsewhere ==
    ASSUME ReadsGoWell, TypeOK, TypeOK', Receiving,
           Writing \/ Waiting \/ ClearError \/ SlotReturns
    PROVE  Receiving'
<1>1. stack \in Seq(Record) /\ Avoids(stack, {"readError"})
  BY DEF TypeOK, Receiving
<1>2. ASSUME UNCHANGED <<connection, reading>>, Avoids(stack', {"readError"})
      PROVE  Receiving'
  BY <1>2 DEF Receiving, Enabled, connection, reading
<1>3. CASE WriteNotifierEvent \/ Flush
  BY <1>1, <1>3, ReceivingWrite DEF WriteNotifierEvent, Flush
<1>4. CASE AfterBytesWritten
  BY <1>1, <1>4, NoErrorBelow, ReceivingWrite DEF AfterBytesWritten, Top
<1>5. CASE AfterWriteError
  <2>1. Avoids(stack', {"readError"})
    <3>1. stack # <<>> /\ stack' = Resume(FALSE, Below)
      BY <1>5 DEF AfterWriteError, Top
    <3>2. "writeError" \in (SlotLabels \cup WaitLabels) \ {"readError"}
      BY DEF SlotLabels
    <3> QED
      BY <1>1, <3>1, <3>2, NoErrorBelow, NoErrorStack
  <2> QED
    BY <1>2, <1>5, <2>1 DEF AfterWriteError
<1>6. CASE WriteFrame \/ WriteInvalid
  BY <1>1, <1>2, <1>6 DEF WriteFrame, WriteInvalid, Write
<1>7. ASSUME NEW forever \in Forever, WaitForReadyRead(forever) \/ WaitForBytesWritten(forever)
      PROVE  Receiving'
  <2>1. PICK at \in {"rr.select", "bw.select"} : Wait(at, forever)
    BY <1>7 DEF WaitForReadyRead, WaitForBytesWritten
  <2>2. forever \in BOOLEAN /\ at \in (SlotLabels \cup WaitLabels) \ {"readError"}
    BY ConstantsAssumption DEF WaitLabels
  <2>3. Avoids(stack', {"readError"})
    BY <1>1, <2>1, <2>2, NoErrorStack DEF Wait
  <2> QED
    BY <1>2, <2>1, <2>3 DEF Wait
<1>8. ASSUME NEW readable \in BOOLEAN, NEW writable \in BOOLEAN, SelectReady(readable, writable)
      PROVE  Receiving'
  <2> DEFINE reader == IF Top("rr.select") THEN "rr.read" ELSE "bw.read"
             writer == IF Top("rr.select") THEN "rr.write" ELSE "bw.write"
             record == [Head(stack) EXCEPT !.at = reader, !.readyToWrite = writable]
  <2>1. stack # <<>> /\ IsOpen(descriptor)
    BY <1>8 DEF SelectReady, Context
  <2>2. /\ reader \in (SlotLabels \cup WaitLabels) \ {"readError"}
        /\ writer \in (SlotLabels \cup WaitLabels) \ {"readError"}
    BY DEF WaitLabels
  <2>3. \/ ReadNotification(Cons(record, Below))
        \/ CompleteAsyncWrite(Goto(writer))
    BY <1>8 DEF SelectReady
  <2> HIDE DEF reader, writer
  <2>4. /\ Cons(record, Below) \in Seq(Record) /\ Avoids(Cons(record, Below), {"readError"})
        /\ Goto(writer) \in Seq(Record) /\ Avoids(Goto(writer), {"readError"})
    BY <1>1, <2>1, <2>2, NoErrorBelow
  <2> HIDE DEF record
  <2> QED
    BY <2>1, <2>3, <2>4, ReceivingRead, ReceivingWrite
<1>9. CASE SelectFails
  <2>1. stack # <<>> /\ stack' = Cons(Base("apiError"), Below)
    BY <1>9 DEF SelectFails, Context
  <2>2. Avoids(stack', {"readError"})
    BY <1>1, <2>1, NoErrorBelow, NoErrorStack DEF SlotLabels
  <2> QED
    BY <1>2, <1>9, <2>2 DEF SelectFails
<1>10. CASE WaitLoop
  <2>1. stack # <<>> /\ stack' \in {Goto("rr.select"), Below}
    BY <1>10 DEF WaitLoop, Top
  <2>2. Avoids(stack', {"readError"})
    BY <1>1, <2>1, NoErrorBelow DEF WaitLabels
  <2> QED
    BY <1>2, <1>10, <2>2 DEF WaitLoop
<1>11. CASE WaitAfterRead
  <2>1. /\ Goto("bw.write") \in Seq(Record) /\ Avoids(Goto("bw.write"), {"readError"})
        /\ Avoids(Goto("bw.select"), {"readError"})
    BY <1>1, <1>11, NoErrorBelow DEF WaitAfterRead, Top, WaitLabels
  <2>2. CASE Head(stack).readyToWrite
    BY <1>11, <2>1, <2>2, ReceivingWrite DEF WaitAfterRead
  <2>3. CASE ~Head(stack).readyToWrite
    BY <1>2, <1>11, <2>1, <2>3 DEF WaitAfterRead
  <2> QED
    BY <2>2, <2>3
<1>12. CASE ClearError
  <2>1. Avoids(stack', {"readError"})
    BY <1>1, <1>12, NoErrorStack DEF ClearError, SlotLabels
  <2> QED
    BY <1>2, <1>12, <2>1 DEF ClearError
<1>13. CASE SlotReturns
  <2>1. stack # <<>> /\ stack' = Below
    BY <1>13 DEF SlotReturns, Context
  <2> QED
    BY <1>1, <1>2, <1>13, <2>1, NoErrorBelow DEF SlotReturns
<1> QED
  BY <1>3, <1>4, <1>5, <1>6, <1>7, <1>8, <1>9, <1>10, <1>11, <1>12, <1>13 DEF Writing, Waiting

(* An application that has read all there was is told of what comes next:  *)
(* the read notifier is armed, if read() does not fail and a limit, once   *)
(* set, is not taken away while the notifier is disarmed.                  *)
THEOREM ReadStaysArmed == ASSUME SlotsKeepOut, ReadsGoWell PROVE Spec => []ReadArmed
<1>1. Init => Receiving
  <2> SUFFICES ASSUME Init PROVE Receiving
    OBVIOUS
  <2>1. stack = <<>> /\ state = "Unconnected" /\ Len(<<>>) = 0
    BY DEF Init
  <2> QED
    BY <2>1 DEF Receiving, Avoids
<1>2. TypeOK /\ TypeOK' /\ CInv /\ Receiving /\ [Next]_vars => Receiving'
  <2> SUFFICES ASSUME TypeOK, TypeOK', CInv, Receiving, [Next]_vars PROVE Receiving'
    OBVIOUS
  <2>1. CASE UNCHANGED vars
    BY <2>1 DEF Receiving, Enabled, vars, connection, reading
  <2> QED
    BY <2>1, ReceivingConnection, ReceivingReading, ReceivingElsewhere DEF Next
<1>3. Receiving => ReadArmed
  BY DEF Receiving, ReadArmed
<1> QED
  BY <1>1, <1>2, <1>3, TypeCorrect, ConnectionInvariant, PTL DEF Spec

=============================================================================
