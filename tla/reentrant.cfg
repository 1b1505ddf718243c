SPECIFICATION Spec
CONSTANTS
  FrameSize = 2
  Fds = {3}
  NULL = NULL
  OpenModes <- Both
  BufferSizes = {4}
  ReadChunk = 4
  ReadErrors = {}
  WriteErrors = {}
  MayFail = {}
  AppCalls <- ReentrantCalls
  Forever = {TRUE, FALSE}
  SlotsDrain = FALSE
  MaxConnects = 2
  MaxRx = 3
  MaxTx = 2
  MaxSent = 2
  MaxDepth = 3
INVARIANT TypeOK
INVARIANT OneEmission
INVARIANT Lifecycle
INVARIANT NotifierBound
INVARIANT WriteArmed
INVARIANT ReadArmed
INVARIANT BytesWrittenAccounted
PROPERTY ReadLimitRespected
PROPERTY ReliableChannel
CHECK_DEADLOCK FALSE
