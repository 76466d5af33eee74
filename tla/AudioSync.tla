----------------------------- MODULE AudioSync -----------------------------
(***************************************************************************)
(* synchronize_audio of coding-279/player/player6.c (lines 239-299), which *)
(* audio_callback (390-393) applies to every block of decoded samples: how *)
(* a block is resized when sound follows another clock.                    *)
(*                                                                         *)
(* audio_diff_avg_coef and audio_diff_threshold are never assigned, so     *)
(* they keep the 0 of av_mallocz and are written as 0 here.  The           *)
(* difference of the clocks, in ticks, is an input of the action.          *)
(***************************************************************************)
EXTENDS Integers

CONSTANTS
  DefaultTypes,                  \* DEFAULT_AV_SYNC_TYPE (line 35) of the builds
  AV_NOSYNC_THRESHOLD,           \* line 25, in ticks
  SAMPLE_CORRECTION_PERCENT_MAX, \* line 27
  AUDIO_DIFF_AVG_NB,             \* line 28
  SampleBytes,                   \* n = 2 * channels, line 246
  SamplesPerTick,                \* sample_rate
  BlockSizes,                    \* what audio_decode_frame may return
  Diffs                          \* audio clock minus master clock

VARIABLES
  av_sync_type,
  audio_diff_avg_count,
  audio_diff_cum,
  block,       \* the last block: its size, the difference, its new size
  near         \* history: blocks in a row below AV_NOSYNC_THRESHOLD

vars == <<av_sync_type, audio_diff_avg_count, audio_diff_cum, block, near>>

Init ==
  /\ av_sync_type \in DefaultTypes
  /\ audio_diff_avg_count = 0
  /\ audio_diff_cum = 0
  /\ block = [size |-> 0, diff |-> 0, new |-> 0]
  /\ near = 0

(* Lines 265-266: the division comes first, and it is one of integers. *)
Percent(samples_size, percent) == samples_size * (percent \div 100)

(* Lines 264-292: the wanted size between the limits is the new size. *)
WantedSize(samples_size, diff) ==
  LET wanted_size == samples_size + diff * SamplesPerTick * SampleBytes
      min_size == Percent(samples_size, 100 - SAMPLE_CORRECTION_PERCENT_MAX)
      max_size == Percent(samples_size, 100 + SAMPLE_CORRECTION_PERCENT_MAX)
  IN  CASE wanted_size < min_size -> min_size
        [] wanted_size > max_size -> max_size
        [] OTHER                  -> wanted_size

(* The history: saturates one past the number the code waits for. *)
Nearer == IF near <= AUDIO_DIFF_AVG_NB THEN near + 1 ELSE near

(* Lines 248, 298: sound is the master and is left alone. *)
SoundIsMaster(samples_size, diff) ==
  /\ av_sync_type = "AV_SYNC_AUDIO_MASTER"
  /\ block' = [size |-> samples_size, diff |-> diff, new |-> samples_size]
  /\ UNCHANGED <<av_sync_type, audio_diff_avg_count, audio_diff_cum, near>>

(* Lines 255-260: not enough differences for an average yet. *)
Accumulate(samples_size, diff) ==
  /\ av_sync_type # "AV_SYNC_AUDIO_MASTER"
  /\ diff < AV_NOSYNC_THRESHOLD
  /\ audio_diff_avg_count < AUDIO_DIFF_AVG_NB
  /\ audio_diff_avg_count' = audio_diff_avg_count + 1
  /\ audio_diff_cum' = diff
  /\ block' = [size |-> samples_size, diff |-> diff, new |-> samples_size]
  /\ near' = Nearer
  /\ UNCHANGED av_sync_type

(* Lines 261-292. *)
Correct(samples_size, diff) ==
  /\ av_sync_type # "AV_SYNC_AUDIO_MASTER"
  /\ diff < AV_NOSYNC_THRESHOLD
  /\ audio_diff_avg_count >= AUDIO_DIFF_AVG_NB
  /\ audio_diff_cum' = diff
  /\ block' = [size |-> samples_size, diff |-> diff,
               new  |-> WantedSize(samples_size, diff)]
  /\ near' = Nearer
  /\ UNCHANGED <<av_sync_type, audio_diff_avg_count>>

(* Lines 293-297: the difference is too big. *)
Reset(samples_size, diff) ==
  /\ av_sync_type # "AV_SYNC_AUDIO_MASTER"
  /\ diff >= AV_NOSYNC_THRESHOLD
  /\ audio_diff_avg_count' = 0
  /\ audio_diff_cum' = 0
  /\ block' = [size |-> samples_size, diff |-> diff, new |-> samples_size]
  /\ near' = 0
  /\ UNCHANGED av_sync_type

synchronize_audio(samples_size, diff) ==
  \/ SoundIsMaster(samples_size, diff)
  \/ Accumulate(samples_size, diff)
  \/ Correct(samples_size, diff)
  \/ Reset(samples_size, diff)

Next == \E samples_size \in BlockSizes, diff \in Diffs :
          synchronize_audio(samples_size, diff)

Spec == Init /\ [][Next]_vars

-----------------------------------------------------------------------------

(* "Add or subtract samples to get a better sync" (line 239), "add samples *)
(* by copying final sample" (279): sound that is ahead of the master clock *)
(* by a sample or more, in a block of which the allowed percentage is a    *)
(* sample or more, is slowed down by added samples.                        *)
AddsSamples ==
  near > AUDIO_DIFF_AVG_NB
    /\ block.diff * SamplesPerTick >= 1
    /\ block.size * SAMPLE_CORRECTION_PERCENT_MAX >= 100 * SampleBytes
  => block.new > block.size
=============================================================================
