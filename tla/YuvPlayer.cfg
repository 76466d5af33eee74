SPECIFICATION Spec
CONSTANTS
  BLOCK_SIZE = 7
  yuv_frame_len = 3
  FileSizes <- MCFileSizes
  MaxBacklog = 3
  MaxUserEvents = 2
INVARIANTS FramesExact NothingBeyondEnd BufferSafe
PROPERTY PlayerExits
