SPECIFICATION FairSpec
CONSTANTS
  FrameSize = 2
  Fds = {3}
  NULL = NULL
  OpenModes <- Both
  BufferSizes = {2, 3}
  ReadChunk = 4
  ReadErrors = {}
  WriteErrors = {}
  MayFail = {}
  AppCalls <- LiveCalls
  Forever = {FALSE, TRUE}
  SlotsDrain = TRUE
  MaxConnects = 1
  MaxRx = 3
  MaxTx = 2
  MaxSent = 2
  MaxDepth = 2
PROPERTY EventuallySent
PROPERTY EventuallyReported
PROPERTY EventuallyRead
PROPERTY AlwaysReturns
CHECK_DEADLOCK FALSE
