SPECIFICATION Spec
CONSTANTS
  FrameSize = 2
  Fds = {3, 4}
  NULL = NULL
  OpenModes <- AllModes
  BufferSizes = {4}
  ReadChunk = 4
  ReadErrors = {"resource", "other"}
  WriteErrors = {"other"}
  MayFail = {"socket", "bind", "close", "select"}
  AppCalls <- ErrorCalls
  Forever = {TRUE, FALSE}
  SlotsDrain = FALSE
  MaxConnects = 2
  MaxRx = 2
  MaxTx = 2
  MaxSent = 3
  MaxDepth = 3
INVARIANT Lifecycle
INVARIANT NotifierBound
INVARIANT WriteArmed
INVARIANT BytesWrittenAccounted
PROPERTY FaultyChannel
CHECK_DEADLOCK FALSE
