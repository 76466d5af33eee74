SPECIFICATION Spec
CONSTANTS
  DefaultTypes = {"AV_SYNC_VIDEO_MASTER"}
  AV_NOSYNC_THRESHOLD = 5
  SAMPLE_CORRECTION_PERCENT_MAX = 10
  AUDIO_DIFF_AVG_NB = 3
  SampleBytes = 4
  SamplesPerTick = 2
  BlockSizes <- MCBlockSizes
  Diffs <- MCDiffs
INVARIANTS AddsSamples
