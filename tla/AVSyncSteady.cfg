SPECIFICATION SteadySpec
CONSTANTS
  DefaultTypes = {"AV_SYNC_AUDIO_MASTER"}
  AV_SYNC_THRESHOLD = 1
  AV_NOSYNC_THRESHOLD = 1000
  MIN_DELAY = 1
  MAX_DELAY = 100
  FIRST_DELAY = 4
  EMPTY_DELAY = 1
  CLOSED_DELAY = 10
  FrameDelay = 2
  Pts <- MCNone
  Repeats <- MCNone
  Clock <- MCNone
  MaxTime = 140
  FirstPts = 1
  Spacing = 4
  MaxUnstamped = 1
  AudioStarts <- MCAudioStarts
  Jitter = 1
  StallLengths <- MCStallLengths
  MaxStalls = 1
  OpenBy = 6
  SettleFrames = 22
INVARIANTS DatesInStep BackInSync
CHECK_DEADLOCK FALSE
