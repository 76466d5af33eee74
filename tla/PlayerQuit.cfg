SPECIFICATION FairSpec
CONSTANTS
  Files <- MCFiles
  MAX_AUDIOQ_SIZE = 0
  MAX_VIDEOQ_SIZE = 0
  VIDEO_PICTURE_QUEUE_SIZE = 1
  FRAMES_PER_PACKET = 1
  FRAME_LEN = 1
  CALLBACK_LEN = 1
PROPERTY
  QuitTerminates
CHECK_DEADLOCK FALSE
