SPECIFICATION FairSpec
CONSTANTS
  Files <- MCFiles
  MAX_AUDIOQ_SIZE = 0
  MAX_VIDEOQ_SIZE = 1
  VIDEO_PICTURE_QUEUE_SIZE = 1
  FRAMES_PER_PACKET = 2
  FRAME_LEN = 1
  CALLBACK_LEN = 1
INVARIANTS
  RefreshChain
  CallbackReady
  DisplayReady
  QueueBound
  OneOwner
PROPERTIES
  PlaysInFileOrder
  FullQueueDrains
  EveryPictureShown
  QuitBlocksOnlyOnAudio
CHECK_DEADLOCK FALSE
