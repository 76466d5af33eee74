---------------------------- MODULE AVSyncProofs ----------------------------
(***************************************************************************)
(* Proofs about AVSync, for all thresholds, all time stamps and all        *)
(* readings of the master clock; and about AVSyncSteady, for all frame     *)
(* rates, offsets, stalls and jitter, that every frame is dated with its   *)
(* place in the stream.                                                    *)
(***************************************************************************)
EXTENDS AVSyncSteady, TLAPS

(* Before the stream is open the delay is the 0 of av_mallocz. *)
ClosedInv == ~video_st => frame_last_delay = 0

(* How far ahead a refresh may be: SleepBounded needs TimerNotAhead, which *)
(* says that a refresh that is due finds frame_timer in the past, and      *)
(* ClosedInv for the step that opens the stream.                           *)
IInv ==
  /\ TypeOK
  /\ DelaySane
  /\ TimerNotAhead
  /\ SleepBounded
  /\ ClosedInv

(* Lines 483-487: the delay kept for the next picture is positive and      *)
(* below MAX_DELAY, whatever the two time stamps are.                      *)
LEMMA PtsDelaySane ==
  ASSUME TypeOK, DelaySane, video_st, NEW pts \in Nat
  PROVE  /\ PtsDelay(pts) \in Nat
         /\ 0 < PtsDelay(pts)
         /\ PtsDelay(pts) < MAX_DELAY
BY AVSyncAssumption DEF PtsDelay, TypeOK, DelaySane

(* Lines 497-506: the correction is between none and twice the delay. *)
LEMMA SyncDelayBounds ==
  ASSUME NEW delay \in Nat, NEW diff \in Int
  PROVE  SyncDelay(delay, diff) \in 0 .. 2 * delay
<1>1. SyncDelay(delay, diff) \in {0, delay, 2 * delay}
  BY AVSyncAssumption DEF SyncDelay
<1> QED BY <1>1

(* Init establishes the invariant. *)
LEMMA InitInv == Init => IInv
<1> SUFFICES ASSUME Init PROVE IInv
  OBVIOUS
<1> USE AVSyncAssumption DEF Init
<1>1. TypeOK
  BY DEF TypeOK
<1>2. SleepBounded
  <2>1. due - now <= FIRST_DELAY
    OBVIOUS
  <2> QED BY <2>1 DEF SleepBounded
<1>3. DelaySane /\ TimerNotAhead /\ ClosedInv
  BY DEF DelaySane, TimerNotAhead, ClosedInv
<1> QED BY <1>1, <1>2, <1>3 DEF IInv

(* Every step keeps it. *)
LEMMA NextInv == IInv /\ [Next]_vars => IInv'
<1> SUFFICES ASSUME IInv, [Next]_vars PROVE IInv'
  OBVIOUS
<1> USE AVSyncAssumption
<1>1. CASE Tick
  <2>1. TypeOK'
    BY <1>1 DEF Tick, IInv, TypeOK
  <2>2. DelaySane'
    BY <1>1 DEF Tick, IInv, DelaySane
  <2>3. TimerNotAhead'
    BY <1>1 DEF Tick, IInv, TypeOK, TimerNotAhead
  <2>4. SleepBounded'
    BY <1>1 DEF Tick, IInv, TypeOK, SleepBounded
  <2>5. ClosedInv'
    BY <1>1 DEF Tick, IInv, ClosedInv
  <2> QED BY <2>1, <2>2, <2>3, <2>4, <2>5 DEF IInv
<1>2. CASE OpenVideo
  <2>1. TypeOK'
    BY <1>2 DEF OpenVideo, IInv, TypeOK
  <2>2. DelaySane'
    BY <1>2 DEF OpenVideo, IInv, DelaySane
  <2>3. TimerNotAhead'
    BY <1>2 DEF OpenVideo, IInv, TypeOK, TimerNotAhead
  <2>4. SleepBounded'
    <3>1. due - now <= 0 \/ \E d \in {MIN_DELAY, FIRST_DELAY, EMPTY_DELAY, CLOSED_DELAY} :
                                  due - now <= d
      BY <1>2 DEF OpenVideo, IInv, ClosedInv, SleepBounded, TypeOK
    <3>2. CASE due - now <= 0
      BY <1>2, <3>2 DEF OpenVideo, SleepBounded, IInv, TypeOK
    <3>3. CASE \E d \in {MIN_DELAY, FIRST_DELAY, EMPTY_DELAY, CLOSED_DELAY} :
                 due - now <= d
      BY <1>2, <3>3 DEF OpenVideo, SleepBounded
    <3> QED BY <3>1, <3>2, <3>3
  <2>5. ClosedInv'
    BY <1>2 DEF OpenVideo, ClosedInv
  <2> QED BY <2>1, <2>2, <2>3, <2>4, <2>5 DEF IInv
<1>3. ASSUME NEW pts \in Pts, NEW repeat_pict \in Repeats,
             DecodeFrame(pts, repeat_pict)
      PROVE  IInv'
  <2>1. pts \in Nat /\ repeat_pict \in Nat
    OBVIOUS
  <2>2. picture' \in Nat
    BY <1>3, <2>1 DEF DecodeFrame, synchronize_video, IInv, TypeOK
  <2>3. (repeat_pict * FrameDelay) \div 2 \in Nat
    <3>1. repeat_pict * FrameDelay \in Nat
      BY <2>1
    <3> QED BY <3>1
  <2>4. video_clock' \in Nat
    BY <1>3, <2>2, <2>3 DEF DecodeFrame, synchronize_video
  <2>5. TypeOK'
    BY <1>3, <2>2, <2>4 DEF DecodeFrame, IInv, TypeOK
  <2> QED BY <1>3, <2>5
          DEF DecodeFrame, IInv, DelaySane, TimerNotAhead, SleepBounded, ClosedInv
<1>4. ASSUME NEW ref_clock \in Clock, RefreshPicture(ref_clock)
      PROVE  IInv'
  <2> DEFINE delay == PtsDelay(picture)
  <2>1. picture \in Nat /\ ref_clock \in Int
    BY <1>4 DEF RefreshPicture, IInv, TypeOK
  <2>2. delay \in Nat /\ 0 < delay /\ delay < MAX_DELAY
    BY <1>4, <2>1, PtsDelaySane DEF RefreshPicture, IInv
  <2>3. frame_timer' \in frame_timer .. frame_timer + 2 * delay
    <3>0. delay \in Nat /\ picture - ref_clock \in Int
      BY <2>1, <2>2
    <3>1. SyncDelay(delay, picture - ref_clock) \in 0 .. 2 * delay
      BY <3>0, SyncDelayBounds, Zenon
    <3> QED BY <1>4, <2>2, <3>1 DEF RefreshPicture, IInv, TypeOK
  <2>4. frame_timer <= now
    BY <1>4 DEF RefreshPicture, IInv, TypeOK, TimerNotAhead
  <2>5. /\ due' \in Nat
        /\ frame_timer' <= due'
        /\ due' - now <= 2 * delay \/ due' - now <= MIN_DELAY
    BY <1>4, <2>2, <2>3, <2>4 DEF RefreshPicture, ActualDelay, IInv, TypeOK
  <2>6. frame_last_delay' = delay /\ now' = now
    BY <1>4 DEF RefreshPicture
  <2>7. TypeOK'
    BY <1>4, <2>1, <2>2, <2>3, <2>5, <2>6
       DEF RefreshPicture, IInv, TypeOK, NoPicture
  <2>8. DelaySane' /\ TimerNotAhead' /\ SleepBounded'
    BY <2>2, <2>5, <2>6 DEF DelaySane, TimerNotAhead, SleepBounded
  <2>9. ClosedInv'
    BY <1>4 DEF RefreshPicture, ClosedInv
  <2> QED BY <2>7, <2>8, <2>9 DEF IInv
<1>5. CASE RefreshLater
  <2>1. now' = now /\ (due' = now + EMPTY_DELAY \/ due' = now + CLOSED_DELAY)
    BY <1>5 DEF RefreshLater
  <2>2. TypeOK'
    BY <1>5, <2>1 DEF RefreshLater, IInv, TypeOK
  <2>3. DelaySane'
    BY <1>5 DEF RefreshLater, IInv, DelaySane
  <2>4. TimerNotAhead'
    BY <1>5, <2>1 DEF RefreshLater, IInv, TypeOK, TimerNotAhead
  <2>5. SleepBounded'
    BY <2>1 DEF IInv, TypeOK, SleepBounded
  <2>6. ClosedInv'
    BY <1>5 DEF RefreshLater, IInv, ClosedInv
  <2> QED BY <2>2, <2>3, <2>4, <2>5, <2>6 DEF IInv
<1>6. CASE UNCHANGED vars
  BY <1>6 DEF vars, IInv, TypeOK, DelaySane, TimerNotAhead, SleepBounded, ClosedInv
<1> QED BY <1>1, <1>2, <1>3, <1>4, <1>5, <1>6 DEF Next

(* The invariant holds of every reachable state. *)
THEOREM Invariant == Spec => []IInv
BY InitInv, NextInv, PTL DEF Spec

(* The clocks keep their types; no time runs below zero. *)
THEOREM TypeCorrect == Spec => []TypeOK
<1>1. IInv => TypeOK
  BY DEF IInv
<1> QED BY <1>1, Invariant, PTL

(* The delay that lines 483-487 keep is always one they would accept. *)
THEOREM DelayAlwaysSane == Spec => []DelaySane
<1>1. IInv => DelaySane
  BY DEF IInv
<1> QED BY <1>1, Invariant, PTL

(* frame_timer never gets ahead of the scheduled refresh (line 507). *)
THEOREM TimerNeverAhead == Spec => []TimerNotAhead
<1>1. IInv => TimerNotAhead
  BY DEF IInv
<1> QED BY <1>1, Invariant, PTL

(* No reading of the clocks makes video_refresh_timer sleep longer than    *)
(* twice the last delay or one of its fixed delays (lines 508-514).        *)
THEOREM SleepAlwaysBounded == Spec => []SleepBounded
<1>1. IInv => SleepBounded
  BY DEF IInv
<1> QED BY <1>1, Invariant, PTL

-----------------------------------------------------------------------------
(* AVSyncSteady *)

(* DatesInStep is not inductive: video_clock must be right when the next   *)
(* frame has no time stamp, and the picture shown last must have been      *)
(* dated from the stamp of the next one, unless that has a stamp itself.   *)
LastShown(k) ==
  /\ k < Shown
  /\ frame_last_pts = Dated(k, Shown - 1)
  /\ stamped < Shown => k = stamped

SteadyInv ==
  /\ frames \in Nat /\ stamped \in Nat
  /\ frames > 0 => stamped < frames /\ video_clock = Dated(stamped, frames)
  /\ picture # NoPicture => frames > 0 /\ picture = Dated(stamped, Shown)
  /\ Shown > 0 => \E k \in Nat : LastShown(k)

(* What dates are apart: a time_base from one frame to the next without a  *)
(* stamp, at least a frame's distance to the next with one.                *)
LEMMA DateNext ==
  ASSUME NEW k \in Nat, NEW n \in Nat, k <= n
  PROVE  /\ Stamp(n) \in Nat \ {0} /\ Dated(n, n) = Stamp(n)
         /\ Dated(k, n) \in Nat \ {0}
         /\ Dated(k, n + 1) = Dated(k, n) + FrameDelay
         /\ FrameDelay <= Spacing => Stamp(n + 1) > Dated(k, n)
<1>1. /\ FrameDelay \in Nat /\ Spacing \in Nat \ {0} /\ FirstPts \in Nat \ {0}
  BY AVSyncAssumption, SteadyAssumption
<1> DEFINE m == n - k
<1>2. m \in Nat /\ n = k + m
  OBVIOUS
<1>3. /\ n * Spacing \in Nat /\ k * Spacing \in Nat
      /\ m * Spacing \in Nat /\ m * FrameDelay \in Nat
  BY <1>1, <1>2
<1>4. /\ n * Spacing = k * Spacing + m * Spacing
      /\ (n + 1) * Spacing = n * Spacing + Spacing
      /\ ((n + 1) - k) * FrameDelay = m * FrameDelay + FrameDelay
  BY <1>1, <1>2
<1>5. FrameDelay <= Spacing => m * FrameDelay <= m * Spacing
  BY <1>1, <1>2
<1>6. (n - n) * FrameDelay = 0
  BY <1>1
<1>7. /\ Stamp(n) = FirstPts + n * Spacing
      /\ Stamp(n + 1) = FirstPts + (n + 1) * Spacing
      /\ Dated(n, n) = Stamp(n) + (n - n) * FrameDelay
      /\ Dated(k, n) = FirstPts + k * Spacing + m * FrameDelay
      /\ Dated(k, n + 1) = FirstPts + k * Spacing + ((n + 1) - k) * FrameDelay
  BY DEF Stamp, Dated
<1> HIDE DEF m
<1> QED BY <1>1, <1>3, <1>4, <1>5, <1>6, <1>7

(* Init establishes SteadyInv. *)
LEMMA SteadyInitInv == SteadyInit => SteadyInv
<1> SUFFICES ASSUME SteadyInit PROVE SteadyInv
  OBVIOUS
<1>1. frames = 0 /\ stamped = 0 /\ picture = NoPicture
  BY DEF SteadyInit, Init
<1>2. Shown = 0
  BY <1>1 DEF Shown
<1> QED BY <1>1, <1>2 DEF SteadyInv

(* Every step keeps SteadyInv. *)
LEMMA SteadyNextInv == SteadyInv /\ [SteadyNext]_steadyVars => SteadyInv'
<1> SUFFICES ASSUME SteadyInv, [SteadyNext]_steadyVars PROVE SteadyInv'
  OBVIOUS
<1>1. CASE UNCHANGED <<picture, video_clock, frame_last_pts, frames, stamped>>
  BY <1>1 DEF SteadyInv, LastShown, Shown
<1>2. CASE SteadyTick \/ Stall \/ SteadyOpen \/ SteadyLater \/ UNCHANGED steadyVars
  BY <1>1, <1>2 DEF SteadyTick, Tick, Stall, SteadyOpen, OpenVideo, SteadyLater,
                    RefreshLater, steadyVars, vars
<1>3. CASE SteadyDecode
  <2>1. /\ picture = NoPicture /\ frames' = frames + 1 /\ frames \in Nat
        /\ UNCHANGED frame_last_pts /\ stamped \in Nat
    BY <1>3 DEF SteadyDecode, DecodeFrame, SteadyInv
  <2>2. Shown = frames
    BY <2>1 DEF Shown
  <2>3. FrameDelay \in Nat /\ (0 * FrameDelay) \div 2 = 0
    BY AVSyncAssumption
  <2>4. /\ stamped' \in Nat /\ stamped' <= frames
        /\ picture' = Dated(stamped', frames)
        /\ frames > 0 => stamped < frames
        /\ stamped' < frames => stamped' = stamped
    <3>1. CASE DecodeFrame(Stamp(frames), 0) /\ stamped' = frames
      <4>1. Stamp(frames) \in Nat \ {0} /\ Dated(frames, frames) = Stamp(frames)
        BY <2>1, DateNext
      <4>2. picture' = Stamp(frames)
        BY <3>1, <4>1 DEF DecodeFrame, synchronize_video
      <4> QED BY <2>1, <3>1, <4>1, <4>2 DEF SteadyInv
    <3>2. CASE frames > 0 /\ DecodeFrame(0, 0) /\ UNCHANGED stamped
      <4>1. picture' = video_clock
        BY <3>2 DEF DecodeFrame, synchronize_video
      <4> QED BY <2>1, <3>2, <4>1 DEF SteadyInv
    <3> QED BY <1>3, <3>1, <3>2 DEF SteadyDecode
  <2>5. /\ picture' \in Nat \ {0}
        /\ Dated(stamped', frames + 1) = picture' + FrameDelay
    BY <2>1, <2>4, DateNext
  <2>6. video_clock' = Dated(stamped', frames')
    <3>1. video_clock' = picture' + FrameDelay + (0 * FrameDelay) \div 2
      BY <1>3 DEF SteadyDecode, DecodeFrame, synchronize_video
    <3> QED BY <2>1, <2>3, <2>5, <3>1
  <2>7. picture' # NoPicture /\ Shown' = frames
    BY <2>1, <2>5 DEF NoPicture, Shown
  <2>8. Shown' > 0 => \E k \in Nat : LastShown(k)'
    <3> SUFFICES ASSUME frames > 0 PROVE \E k \in Nat : LastShown(k)'
      BY <2>7
    <3>1. PICK k \in Nat : LastShown(k)
      BY <2>1, <2>2 DEF SteadyInv
    <3>2. LastShown(k)'
      BY <2>1, <2>2, <2>4, <2>7, <3>1 DEF LastShown, Dated, Stamp
    <3> QED BY <3>2
  <2> QED BY <2>1, <2>4, <2>6, <2>7, <2>8 DEF SteadyInv
<1>4. CASE SteadyRefresh
  <2>1. /\ picture # NoPicture /\ picture' = NoPicture
        /\ frame_last_pts' = picture
        /\ UNCHANGED <<video_clock, frames, stamped>>
    BY <1>4 DEF SteadyRefresh, RefreshPicture
  <2>2. /\ frames \in Nat /\ frames > 0 /\ stamped \in Nat /\ stamped < frames
        /\ picture = Dated(stamped, Shown)
    BY <2>1 DEF SteadyInv
  <2>3. Shown = frames - 1 /\ Shown' = frames
    BY <2>1, <2>2 DEF Shown
  <2>4. LastShown(stamped)'
    BY <2>1, <2>2, <2>3 DEF LastShown, Dated, Stamp
  <2> QED BY <2>1, <2>2, <2>4 DEF SteadyInv
<1> QED
  BY <1>2, <1>3, <1>4 DEF SteadyNext

(* SteadyInv says what DatesInStep says. *)
LEMMA SteadyInvDates == SteadyInv => DatesInStep
<1> SUFFICES ASSUME SteadyInv, picture # NoPicture
             PROVE  /\ picture = Dated(stamped, Shown)
                    /\ Shown > 0 /\ FrameDelay \in 1 .. Spacing => picture > frame_last_pts
  BY DEF DatesInStep
<1>1. /\ frames \in Nat \ {0} /\ stamped \in Nat /\ stamped < frames
      /\ picture = Dated(stamped, Shown)
  BY DEF SteadyInv
<1>2. Shown = frames - 1 /\ Shown \in Nat /\ stamped <= Shown
  BY <1>1 DEF Shown
<1>3. ASSUME Shown > 0, FrameDelay \in 1 .. Spacing PROVE picture > frame_last_pts
  <2>1. PICK k \in Nat : LastShown(k)
    BY <1>3 DEF SteadyInv
  <2> DEFINE n == Shown - 1
  <2>2. n \in Nat /\ n + 1 = Shown /\ k <= n /\ frame_last_pts = Dated(k, n)
    BY <1>2, <1>3, <2>1 DEF LastShown
  <2>3. /\ Dated(k, n) \in Nat /\ Dated(k, n + 1) = Dated(k, n) + FrameDelay
        /\ FrameDelay <= Spacing => Stamp(n + 1) > Dated(k, n)
        /\ Dated(n + 1, n + 1) = Stamp(n + 1)
    <3> HIDE DEF n
    <3> QED BY <2>2, DateNext
  <2> HIDE DEF n
  <2>4. CASE stamped < Shown
    BY <1>1, <1>3, <2>1, <2>2, <2>3, <2>4 DEF LastShown
  <2>5. CASE stamped = Shown
    <3>1. FrameDelay <= Spacing
      BY <1>3, SteadyAssumption
    <3> QED BY <1>1, <2>2, <2>3, <2>5, <3>1
  <2> QED BY <1>1, <1>2, <2>4, <2>5
<1> QED BY <1>1, <1>3

(* Lines 619-636, for every distance of the frames, time_base, start,      *)
(* stall and jitter: a frame's date is off by its predictions since the    *)
(* last time stamp, never by what came before, and dates increase unless   *)
(* the time_base is longer than the distance.                              *)
THEOREM FramesDatedInPlace == SteadySpec => []DatesInStep
<1> QED
  BY SteadyInvDates, SteadyInitInv, SteadyNextInv, PTL DEF SteadySpec

(* With a time_base that is the frames' distance every frame is dated with *)
(* its place in the stream.                                                *)
THEOREM ExactTimeBase ==
  ASSUME FrameDelay = Spacing
  PROVE  SteadySpec => [](picture # NoPicture => picture = Stamp(Shown))
<1>1. SteadyInv => (picture # NoPicture => picture = Stamp(Shown))
  <2> SUFFICES ASSUME SteadyInv, picture # NoPicture PROVE picture = Stamp(Shown)
    OBVIOUS
  <2>1. /\ frames \in Nat \ {0} /\ stamped \in Nat
        /\ picture = Stamp(stamped) + (Shown - stamped) * FrameDelay
    BY DEF SteadyInv, Dated
  <2>2. Shown \in Nat
    BY <2>1 DEF Shown
  <2>3. Spacing \in Nat /\ FirstPts \in Nat
    BY SteadyAssumption
  <2> HIDE DEF Shown
  <2>4. stamped * Spacing + (Shown - stamped) * Spacing = Shown * Spacing
    BY <2>1, <2>2, <2>3
  <2> QED BY <2>1, <2>2, <2>3, <2>4 DEF Stamp
<1> QED
  BY <1>1, SteadyInitInv, SteadyNextInv, PTL DEF SteadySpec
=============================================================================
