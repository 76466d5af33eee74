SPECIFICATION FairSpec
CONSTANTS
  VIDEO_PICTURE_QUEUE_SIZE = 3
  MaxPictures = 6
  Dims = {small, large}
  NULL = NULL
INVARIANTS
  NoSlotRace
  ShownInOrder
  NoLostWakeup
PROPERTIES
  BufferSpec
  EveryPictureShown
CHECK_DEADLOCK FALSE
