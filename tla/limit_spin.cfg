SPECIFICATION Spec
CONSTANTS
  FrameSize = 2
  Fds = {3}
  NULL = NULL
  OpenModes <- Both
  BufferSizes = {3}
  ReadChunk = 4
  ReadErrors = {}
  WriteErrors = {}
  MayFail = {}
  AppCalls <- LiveCalls
  Forever = {FALSE}
  SlotsDrain = FALSE
  MaxConnects = 1
  MaxRx = 2
  MaxTx = 1
  MaxSent = 1
  MaxDepth = 1
INVARIANT TooSmallDisarms
CHECK_DEADLOCK FALSE
