SPECIFICATION Spec
CONSTANTS
  DefaultTypes = {"AV_SYNC_AUDIO_MASTER", "AV_SYNC_VIDEO_MASTER"}
  AV_SYNC_THRESHOLD = 1
  AV_NOSYNC_THRESHOLD = 8
  MIN_DELAY = 1
  MAX_DELAY = 6
  FIRST_DELAY = 3
  EMPTY_DELAY = 1
  CLOSED_DELAY = 4
  FrameDelay = 2
  Pts <- MCPts
  Repeats <- MCRepeats
  Clock <- MCClock
  MaxTime = 12
INVARIANTS DelaySane TimerNotAhead SleepBounded
CHECK_DEADLOCK FALSE
