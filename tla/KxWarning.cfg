SPECIFICATION FairSpec
CONSTANTS
  Viewings <- MCWarned
  SeekTargets = {1}
  MIN_BUFFERED = 1
  MAX_BUFFERED = 2
  AUDIO_FACTOR = 3
  CHUNK = 1
  DESYNC = 1
  SECOND = 1
PROPERTY WarningContinues
CHECK_DEADLOCK FALSE
