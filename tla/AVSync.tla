------------------------------- MODULE AVSync -------------------------------
(***************************************************************************)
(* The clocks of coding-279/player/player6.c: how synchronize_video        *)
(* (lines 619-636) dates the frames and how video_refresh_timer (466-531)  *)
(* computes from the dates, from frame_timer and from the master clock     *)
(* when the next refresh is due.                                           *)
(*                                                                         *)
(* The source computes with doubles in seconds; here times are whole       *)
(* ticks, so that the rounding to milliseconds of line 514 disappears.     *)
(* The length of a tick, and with it every threshold, is a parameter.      *)
(* What the decoder finds in the file (pts, repeat_pict) and what the      *)
(* master clock reads are inputs of the actions.                           *)
(***************************************************************************)
EXTENDS Integers

CONSTANTS
  DefaultTypes,              \* DEFAULT_AV_SYNC_TYPE (line 35) of the builds
  AV_SYNC_THRESHOLD,         \* line 24
  AV_NOSYNC_THRESHOLD,       \* line 25
  MIN_DELAY,                 \* 0.010, lines 510-512
  MAX_DELAY,                 \* 1.0, line 484
  FIRST_DELAY,               \* 40 ms, lines 783 and 951
  EMPTY_DELAY,               \* 1 ms, line 474
  CLOSED_DELAY,              \* 100 ms, line 529
  FrameDelay,                \* av_q2d(video_ctx->time_base), line 631
  Pts,                       \* time stamps of frames; 0 stands for none
  Repeats,                   \* values of repeat_pict
  Clock,                     \* readings of the master clock
  MaxTime                    \* bound: the model's clock stops here

SyncTypes == {"AV_SYNC_AUDIO_MASTER", "AV_SYNC_VIDEO_MASTER",
              "AV_SYNC_EXTERNAL_MASTER"}

(* No picture: pictq_size = 0. *)
NoPicture == -1

ASSUME AVSyncAssumption ==
  /\ DefaultTypes \subseteq SyncTypes
  /\ AV_SYNC_THRESHOLD \in Nat \ {0}
  /\ AV_NOSYNC_THRESHOLD \in Nat \ {0}
  /\ MIN_DELAY \in Nat \ {0}
  /\ MAX_DELAY \in Nat
  /\ FIRST_DELAY \in Nat \ {0}
  /\ FIRST_DELAY < MAX_DELAY
  /\ EMPTY_DELAY \in Nat \ {0}
  /\ CLOSED_DELAY \in Nat \ {0}
  /\ FrameDelay \in Nat
  /\ Pts \subseteq Nat
  /\ Repeats \subseteq Nat
  /\ Clock \subseteq Int
  /\ MaxTime \in Nat

VARIABLES
  av_sync_type,
  now,                  \* av_gettime
  due,                  \* when the timer armed by schedule_refresh fires
  video_st,             \* is->video_st is set
  picture,              \* pts of the picture in pictq, or NoPicture
  video_clock,
  frame_timer,
  frame_last_pts,
  frame_last_delay

vars == <<av_sync_type, now, due, video_st, picture, video_clock,
          frame_timer, frame_last_pts, frame_last_delay>>

(* main, lines 906-958: VideoState is zeroed and a refresh is scheduled. *)
Init ==
  /\ av_sync_type \in DefaultTypes
  /\ now = 0
  /\ due = FIRST_DELAY
  /\ video_st = FALSE
  /\ picture = NoPicture
  /\ video_clock = 0
  /\ frame_timer = 0
  /\ frame_last_pts = 0
  /\ frame_last_delay = 0

(* Time passes.  A refresh may be handled late but never before it is due. *)
Tick ==
  /\ now < MaxTime
  /\ now' = now + 1
  /\ UNCHANGED <<av_sync_type, due, video_st, picture, video_clock,
                 frame_timer, frame_last_pts, frame_last_delay>>

(* Mutant: frame_last_delay keeps the 0 of av_mallocz. *)
OpenVideoNoDelay ==
  /\ ~video_st
  /\ video_st' = TRUE
  /\ frame_timer' = now
  /\ UNCHANGED <<av_sync_type, now, due, picture, video_clock,
                 frame_last_pts, frame_last_delay>>

(* stream_component_open, lines 777-784. *)
OpenVideo ==
  /\ ~video_st
  /\ video_st' = TRUE
  /\ frame_timer' = now
  /\ frame_last_delay' = FIRST_DELAY
  /\ UNCHANGED <<av_sync_type, now, due, picture, video_clock,
                 frame_last_pts>>

(* Mutant: the clock is advanced from its old value, not from the pts. *)
synchronize_video_stale(pts, repeat_pict) ==
  /\ picture' = IF pts # 0 THEN pts ELSE video_clock
  /\ video_clock' = video_clock + FrameDelay + (repeat_pict * FrameDelay) \div 2

(* Lines 619-636: a frame without a time stamp gets the predicted one, and *)
(* the clock moves on to the prediction for the next frame.                *)
synchronize_video(pts, repeat_pict) ==
  /\ picture' = IF pts # 0 THEN pts ELSE video_clock
  /\ video_clock' = picture' + FrameDelay + (repeat_pict * FrameDelay) \div 2

(* decode_video_thread, lines 656-666, with queue_picture's vp->pts (599). *)
DecodeFrame(pts, repeat_pict) ==
  /\ video_st
  /\ picture = NoPicture
  /\ synchronize_video(pts, repeat_pict)
  /\ UNCHANGED <<av_sync_type, now, due, video_st, frame_timer,
                 frame_last_pts, frame_last_delay>>

(* Lines 483-487: an incorrect delay is replaced by the previous one. *)
PtsDelay(pts) ==
  LET delay == pts - frame_last_pts
  IN  IF delay <= 0 \/ delay >= MAX_DELAY THEN frame_last_delay ELSE delay

(* Mutant: a picture that is early is held back by the whole difference. *)
SyncDelayWhole(delay, diff) ==
  IF diff >= AV_SYNC_THRESHOLD /\ diff < AV_NOSYNC_THRESHOLD
  THEN delay + diff ELSE delay

(* Mutant: a picture that is early is not held back. *)
SyncDelayNoWait(delay, diff) ==
  LET sync_threshold == IF delay > AV_SYNC_THRESHOLD THEN delay
                                                     ELSE AV_SYNC_THRESHOLD
  IN  IF -AV_NOSYNC_THRESHOLD < diff /\ diff <= -sync_threshold THEN 0
                                                                ELSE delay

(* Lines 497-506: hurry when late, wait twice as long when early. *)
SyncDelay(delay, diff) ==
  LET sync_threshold == IF delay > AV_SYNC_THRESHOLD THEN delay
                                                     ELSE AV_SYNC_THRESHOLD
      near == -AV_NOSYNC_THRESHOLD < diff /\ diff < AV_NOSYNC_THRESHOLD
  IN  CASE near /\ diff <= -sync_threshold -> 0
        [] near /\ diff >= sync_threshold  -> 2 * delay
        [] OTHER                           -> delay

(* Mutant: the refresh is scheduled after the picture's own delay, whatever *)
(* was added to frame_timer.                                               *)
ActualDelayUnsynced(timer) ==
  IF frame_last_delay' < MIN_DELAY THEN MIN_DELAY ELSE frame_last_delay'

(* Lines 508-513. *)
ActualDelay(timer) ==
  LET actual_delay == timer - now
  IN  IF actual_delay < MIN_DELAY THEN MIN_DELAY ELSE actual_delay

(* video_refresh_timer with a picture in the queue, lines 477-526. *)
RefreshPicture(ref_clock) ==
  /\ video_st
  /\ now >= due
  /\ picture # NoPicture
  /\ LET delay == PtsDelay(picture)
     IN  /\ frame_last_delay' = delay
         /\ frame_timer' = frame_timer +
              IF av_sync_type # "AV_SYNC_VIDEO_MASTER"
              THEN SyncDelay(delay, picture - ref_clock)
              ELSE delay
  /\ frame_last_pts' = picture
  /\ due' = now + ActualDelay(frame_timer')
  /\ picture' = NoPicture
  /\ UNCHANGED <<av_sync_type, now, video_st, video_clock>>

(* Lines 473-475 and 528-530: nothing to show yet. *)
RefreshLater ==
  /\ now >= due
  /\ \/ video_st /\ picture = NoPicture /\ due' = now + EMPTY_DELAY
     \/ ~video_st /\ due' = now + CLOSED_DELAY
  /\ UNCHANGED <<av_sync_type, now, video_st, picture, video_clock,
                 frame_timer, frame_last_pts, frame_last_delay>>

Next ==
  \/ Tick
  \/ OpenVideo
  \/ \E pts \in Pts, repeat_pict \in Repeats : DecodeFrame(pts, repeat_pict)
  \/ \E ref_clock \in Clock : RefreshPicture(ref_clock)
  \/ RefreshLater

Spec == Init /\ [][Next]_vars

-----------------------------------------------------------------------------

(* The types of the clocks (struct VideoState, lines 60-78). *)
TypeOK ==
  /\ av_sync_type \in SyncTypes
  /\ now \in Nat
  /\ due \in Nat
  /\ video_st \in BOOLEAN
  /\ picture \in Nat \cup {NoPicture}
  /\ video_clock \in Nat
  /\ frame_timer \in Nat
  /\ frame_last_pts \in Nat
  /\ frame_last_delay \in Nat

(* Whatever time stamps the file holds (none, repeated, backward or far    *)
(* apart), the delay that lines 483-487 keep for the next picture is a     *)
(* positive one below a second: the fallback to frame_last_delay never     *)
(* meets a value that was itself incorrect.                                *)
DelaySane ==
  video_st => 0 < frame_last_delay /\ frame_last_delay < MAX_DELAY

(* frame_timer, to which only delays are added (507) and which nothing     *)
(* resets, never gets ahead of the moment the next refresh is due: holding *)
(* pictures back (504-505) does not add up over pictures.                  *)
TimerNotAhead ==
  frame_timer <= due \/ frame_timer <= now

(* The picture on the screen is replaced or looked at again in time: while *)
(* video plays no refresh is scheduled further away than twice the last    *)
(* delay or one of the fixed delays, however the clocks differ.            *)
SleepBounded ==
  \/ due - now <= 2 * frame_last_delay
  \/ \E d \in {MIN_DELAY, FIRST_DELAY, EMPTY_DELAY, CLOSED_DELAY} : due - now <= d
=============================================================================
