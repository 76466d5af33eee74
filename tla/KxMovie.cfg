SPECIFICATION FairSpec
CONSTANTS
  Viewings <- MCViewings
  SeekTargets = {1}
  MIN_BUFFERED = 1
  MAX_BUFFERED = 2
  AUDIO_FACTOR = 3
  CHUNK = 1
  DESYNC = 1
  SECOND = 1
INVARIANTS TickAlive OneDecode HiddenIsSilent FreesInSilence DurationExact LeftoverBound
PROPERTIES InOrder PlaybackEnds StartsPlaying
CHECK_DEADLOCK FALSE
