SPECIFICATION FairSpec
CONSTANTS
  Types = {"raw", "isotp"}
  FrameSize = 2
  ReadChunk = 4
  MaxMessage = 4
  BlockSize = 4
  BufferSizes = {0, 3}
  MessageSizes = {1, 3}
  WriteSizes = {1, 2}
  MaxRx = 5
  MaxTx = 5
INVARIANT TypeOK
INVARIANT WireIsWritten
INVARIANT WritesKeptWhole
INVARIANT ReceivedInOrder
PROPERTY CutByLimitOnly
PROPERTY SentUnlessStuck
CHECK_DEADLOCK FALSE
