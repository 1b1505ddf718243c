------------------------ MODULE MCCanAbstractSocket ------------------------
(* Applications of CanAbstractSocket for TLC: which calls they make, from  *)
(* the event loop and from which slots.                                    *)
EXTENDS CanAbstractSocket, CanRawLoops

Both     == {{"ReadOnly", "WriteOnly"}}
AllModes == SUBSET Access

(* The outcomes the socket's model uses are those of the loops in the code *)
ASSUME LoopsAssumption == LoopsEndInOutcomes(3, -3 .. 9, {"resource", "other"})

(* Slots that read and write, drain, and wait for more, in the slots of    *)
(* the signals where that is supported by the code.                        *)
ReentrantCalls ==
    ({"main"} \X {"connect", "close", "read", "readAll", "write", "flush",
                  "setReadBufferSize", "waitForReadyRead", "waitForBytesWritten"})
    \cup ({"readyRead"} \X {"read", "readAll", "write", "flush", "close",
                            "waitForBytesWritten", "waitForReadyRead", "events"})
    \cup ({"bytesWritten"} \X {"write", "close", "readAll"})
    \cup ({"connected"} \X {"write", "close"})
    \cup ({"unconnected"} \X {"connect"})

(* Applications that meet every error: they close, reconnect and retry     *)
(* from the slots of the error and state signals, clear the error, and     *)
(* close again when closing fails.  They do not connect again in the slot  *)
(* of "unconnected", which may then run inside of the close that failed.   *)
ErrorCalls ==
    ({"main"} \X {"connect", "close", "readAll", "write", "writeInvalid", "flush",
                  "waitForReadyRead", "waitForBytesWritten", "clearError"})
    \cup ({"readError", "writeError"} \X {"close", "connect", "flush"})
    \cup ({"connectError", "closeError"} \X {"close"})
    \cup ({"connected", "readyRead", "bytesWritten"} \X {"close", "connect"})
    \cup ({"apiError"} \X {"connect"})

(* An application that writes, reads what it is told of, waits, and sets   *)
(* the read limit when it is told of data, before it has read.             *)
LiveCalls ==
    ({"main"} \X {"connect", "write", "waitForReadyRead", "waitForBytesWritten",
                  "close"})
    \cup ({"readyRead"} \X {"readAll", "write", "setReadBufferSize",
                            "waitForBytesWritten"})
    \cup ({"bytesWritten"} \X {"write", "readAll"})

(* An application that writes on, and flushes, when it is told of a write  *)
FlushCalls ==
    ({"main"} \X {"connect", "write"}) \cup ({"bytesWritten"} \X {"write", "flush"})
=============================================================================
