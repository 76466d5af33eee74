---------------------------- MODULE AVSyncSteady ----------------------------
(***************************************************************************)
(* player6.c with audio as the master clock (the default, line 35) on an   *)
(* undisturbed machine: the decoder always has the next frame ready, main  *)
(* handles a refresh when it is due, and audio plays at the speed of real  *)
(* time, up to the step of one hardware buffer by which get_audio_clock    *)
(* (lines 202-218) lags.  The disturbances are the ones a player meets:    *)
(* sound and pictures that start at different moments, and main held up    *)
(* for a while (video_display on a window that is being moved).            *)
(* The question is whether the corrections of lines 489-506 bring the      *)
(* pictures back to the sound.                                             *)
(*                                                                         *)
(* FrameDelay, the codec's time_base, need not be the distance of the      *)
(* frames: libavcodec/avcodec.h (631-656) has half a frame for H.264 and   *)
(* MPEG-2, 0/1 as the default, and calls the field deprecated for          *)
(* decoding.  The distance is a constant of its own.                       *)
(***************************************************************************)
EXTENDS AVSync

CONSTANTS
  FirstPts,        \* time stamp of the first frame
  Spacing,         \* how far the stream's frames are apart
  MaxUnstamped,    \* how many frames in a row may lack a time stamp
  AudioStarts,     \* when sample 0 of the sound is heard
  Jitter,          \* a hardware buffer's length
  StallLengths,    \* how long main may be held up
  MaxStalls,       \* bound: how often
  OpenBy,          \* bound: when the video stream is open
  SettleFrames     \* frames within which the pictures are back in time

ASSUME SteadyAssumption ==
  /\ FirstPts \in Nat \ {0}
  /\ Spacing \in Nat \ {0}
  /\ MaxUnstamped \in Nat
  /\ Jitter \in Nat
  /\ OpenBy \in Nat
  /\ SettleFrames \in Nat

VARIABLES
  audio_start,
  frames,          \* decoded so far; the next one's number
  stamped,         \* the last frame that had a time stamp
  stalls,          \* left
  undisturbed,     \* pictures shown since the start or the last stall
  shown_diff       \* place in the stream minus master clock, of the last picture

steadyVars == <<vars, audio_start, frames, stamped, stalls, undisturbed, shown_diff>>

SteadyInit ==
  /\ Init
  /\ audio_start \in AudioStarts
  /\ frames = 0
  /\ stamped = 0
  /\ stalls = MaxStalls
  /\ undisturbed = 0
  /\ shown_diff = 0

SteadyTick ==
  /\ now < due
  /\ picture # NoPicture \/ (~video_st /\ now < OpenBy)
  /\ Tick
  /\ UNCHANGED <<audio_start, frames, stamped, stalls, undisturbed, shown_diff>>

(* External: the main thread does not run for a while. *)
Stall ==
  /\ picture # NoPicture
  /\ stalls > 0
  /\ stalls' = stalls - 1
  /\ \E d \in StallLengths : now + d <= MaxTime /\ now' = now + d
  /\ undisturbed' = 0
  /\ UNCHANGED <<av_sync_type, due, video_st, picture, video_clock,
                 frame_timer, frame_last_pts, frame_last_delay,
                 audio_start, frames, stamped, shown_diff>>

SteadyOpen ==
  /\ OpenVideo
  /\ UNCHANGED <<audio_start, frames, stamped, stalls, undisturbed, shown_diff>>

(* Every frame's date: its place in the stream. *)
Stamp(n) == FirstPts + n * Spacing

(* The first frame carries a time stamp; the others may or may not. *)
SteadyDecode ==
  /\ \/ DecodeFrame(Stamp(frames), 0) /\ stamped' = frames
     \/ /\ frames > 0 /\ frames - stamped <= MaxUnstamped
        /\ DecodeFrame(0, 0)
        /\ UNCHANGED stamped
  /\ frames' = frames + 1
  /\ UNCHANGED <<audio_start, stalls, undisturbed, shown_diff>>

SteadyRefresh ==
  /\ \E lag \in 0 .. Jitter :
       LET ref_clock == now - audio_start - lag
       IN  /\ RefreshPicture(ref_clock)
           /\ shown_diff' = Stamp(frames - 1) - ref_clock
  /\ undisturbed' = undisturbed + 1
  /\ UNCHANGED <<audio_start, frames, stamped, stalls>>

SteadyLater ==
  /\ ~video_st
  /\ RefreshLater
  /\ UNCHANGED <<audio_start, frames, stamped, stalls, undisturbed, shown_diff>>

SteadyNext ==
  \/ SteadyTick
  \/ Stall
  \/ SteadyOpen
  \/ SteadyDecode
  \/ SteadyRefresh
  \/ SteadyLater

SteadySpec == SteadyInit /\ [][SteadyNext]_steadyVars

-----------------------------------------------------------------------------

(* Pictures shown so far. *)
Shown == frames - (IF picture = NoPicture THEN 0 ELSE 1)

(* The n-th frame's date if the last time stamp is the k-th frame's. *)
Dated(k, n) == Stamp(k) + (n - k) * FrameDelay

(* However frames with and without time stamp (623-629) alternate, each is *)
(* dated with the last stamp and one time_base for every frame since.  The *)
(* error of the prediction, a frame's distance less the time_base for each *)
(* of them, is gone with the next stamp.  Unless the time_base is longer   *)
(* than the distance, dates increase and lines 483-487 find a delay.       *)
DatesInStep ==
  picture # NoPicture =>
     /\ picture = Dated(stamped, Shown)
     /\ Shown > 0 /\ FrameDelay \in 1 .. Spacing => picture > frame_last_pts

(* After SettleFrames undisturbed pictures every picture is shown at its   *)
(* place in the stream, within the sync threshold (here a frame's          *)
(* distance), the jitter of the sound and the prediction's error: the      *)
(* corrections converge, although frame_timer keeps the debt of a stall    *)
(* and overshoots before it settles.                                       *)
Tolerance == Spacing + Jitter + MaxUnstamped * (Spacing - FrameDelay)
BackInSync ==
  undisturbed >= SettleFrames => -Tolerance < shown_diff /\ shown_diff < Tolerance
=============================================================================
