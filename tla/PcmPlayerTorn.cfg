SPECIFICATION Spec
CONSTANTS
  BLOCK_SIZE = 6
  FileSize = 13
  Chunk = 2
  Buffer = 4
  AddressSpace = 32
INVARIANT CallbackInBuffer
