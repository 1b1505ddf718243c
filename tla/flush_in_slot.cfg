SPECIFICATION Spec
CONSTANTS
  FrameSize = 2
  Fds = {3}
  NULL = NULL
  OpenModes <- Both
  BufferSizes = {3}
  ReadChunk = 4
  ReadErrors = {}
  WriteErrors = {}
  MayFail = {}
  AppCalls <- FlushCalls
  Forever = {FALSE}
  SlotsDrain = FALSE
  MaxConnects = 1
  MaxRx = 2
  MaxTx = 2
  MaxSent = 2
  MaxDepth = 2
INVARIANT BytesWrittenAccounted
CHECK_DEADLOCK FALSE
