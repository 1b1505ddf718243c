SPECIFICATION FairSpec
CONSTANTS
  Types = {"isotp"}
  FrameSize = 2
  ReadChunk = 4
  MaxMessage = 3
  BlockSize = 4
  BufferSizes = {0, 3}
  MessageSizes = {1, 3}
  WriteSizes = {1, 2}
  MaxRx = 0
  MaxTx = 5
CHECK_DEADLOCK FALSE
PROPERTY EventuallyOut
