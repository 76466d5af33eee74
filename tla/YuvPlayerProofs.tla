-------------------------- MODULE YuvPlayerProofs --------------------------
(***************************************************************************)
(* Proofs about YuvPlayer, for every block size of two frames or more,     *)
(* every frame length and every file: the buffer is used inside its        *)
(* bounds, and frame k on the screen is frame k of the file.               *)
(*                                                                         *)
(* The invariant names the file offset of the head of the buffer: it is    *)
(* file_pos - video_end, and video_pos is behind it by what has been shown.*)
(* Blank space is left only when the file has ended, so a frame never      *)
(* lies across the end of the buffer.                                      *)
(***************************************************************************)
EXTENDS YuvPlayer, TLAPS

RangesOK ==
  /\ file_size \in Nat
  /\ file_pos \in 0 .. file_size
  /\ video_end \in 0 .. BLOCK_SIZE
  /\ video_pos \in 0 .. BLOCK_SIZE
  /\ blank_space_len = BLOCK_SIZE - video_end
  /\ shown \in Nat
  /\ video_buf \in [0 .. BLOCK_SIZE - 1 -> Int]

StartInv ==
  main = "start" => video_pos = 0 /\ video_end = 0 /\ file_pos = 0 /\ shown = 0

(* The bytes in the buffer, and where the next frame begins. *)
BytesInv ==
  /\ file_pos - video_end + video_pos = shown * yuv_frame_len
  /\ \A i \in video_pos .. video_end - 1 :
       video_buf[i] = file_pos - video_end + i

EndInv ==
  /\ main = "event" /\ blank_space_len > 0 => file_pos = file_size
  /\ video_pos > video_end => file_pos = file_size

(* FramesExact without the division. *)
FrameInv ==
  shown # 0 /\ shown * yuv_frame_len <= file_size =>
    frame = [i \in 1 .. yuv_frame_len |-> (shown - 1) * yuv_frame_len + i - 1]

IInv == RangesOK /\ StartInv /\ BytesInv /\ EndInv /\ FrameInv /\ NothingBeyondEnd

-----------------------------------------------------------------------------

LEMMA Sizes ==
  /\ yuv_frame_len \in Nat \ {0} /\ BLOCK_SIZE \in Nat
  /\ yuv_frame_len + yuv_frame_len <= BLOCK_SIZE
BY YuvAssumption

LEMMA MinOfTwo ==
  ASSUME NEW a \in Int, NEW b \in Int
  PROVE  Min({a, b}) = IF a <= b THEN a ELSE b
<1> DEFINE m == IF a <= b THEN a ELSE b
<1>1. m \in {a, b} /\ \A y \in {a, b} : m <= y
  OBVIOUS
<1>2. \A x \in {a, b} : (\A y \in {a, b} : x <= y) => x = m
  OBVIOUS
<1> QED
  BY <1>1, <1>2 DEF Min

LEMMA NextFrame ==
  ASSUME NEW s \in Nat, NEW l \in Nat
  PROVE  /\ s * l \in Nat
         /\ (s + 1) * l = s * l + l
OBVIOUS

LEMMA InitIInv == Init => IInv
<1> SUFFICES ASSUME Init PROVE IInv
  OBVIOUS
<1>1. file_size \in Nat /\ shown = 0 /\ shown * yuv_frame_len = 0
  BY YuvAssumption, Sizes DEF Init
<1>2. RangesOK
  BY <1>1, Sizes DEF Init, RangesOK, Junk
<1>3. StartInv /\ EndInv
  BY Sizes DEF Init, StartInv, EndInv
<1>4. BytesInv
  BY <1>1 DEF Init, BytesInv
<1>5. FrameInv /\ NothingBeyondEnd
  BY <1>1, Sizes DEF FrameInv, NothingBeyondEnd
<1> QED
  BY <1>2, <1>3, <1>4, <1>5 DEF IInv

(* Lines 125-141 keep the bytes that remain and their place in the file;   *)
(* there is room behind them, and unless the file has ended they are an    *)
(* incomplete frame at the head.                                           *)
LEMMA RotatedKeeps ==
  ASSUME IInv, main = "event", NotEnough
  PROVE  /\ Rotated.end \in 0 .. BLOCK_SIZE - 1
         /\ Rotated.pos \in 0 .. BLOCK_SIZE
         /\ Rotated.blank = BLOCK_SIZE - Rotated.end
         /\ Rotated.buf \in [0 .. BLOCK_SIZE - 1 -> Int]
         /\ file_pos - Rotated.end + Rotated.pos = shown * yuv_frame_len
         /\ \A i \in Rotated.pos .. Rotated.end - 1 :
              Rotated.buf[i] = file_pos - Rotated.end + i
         /\ file_pos # file_size => Rotated.pos = 0
         /\ Rotated.pos > Rotated.end => file_pos = file_size
<1> DEFINE remain_len == video_end - video_pos
           moved == [i \in DOMAIN video_buf |->
                       IF i < remain_len THEN video_buf[video_pos + i]
                                         ELSE video_buf[i]]
<1>a. /\ file_size \in Nat /\ file_pos \in Nat
      /\ video_end \in 0 .. BLOCK_SIZE /\ video_pos \in 0 .. BLOCK_SIZE
      /\ blank_space_len = BLOCK_SIZE - video_end
      /\ video_buf \in [0 .. BLOCK_SIZE - 1 -> Int]
      /\ file_pos - video_end + video_pos = shown * yuv_frame_len
      /\ \A i \in video_pos .. video_end - 1 :
           video_buf[i] = file_pos - video_end + i
      /\ blank_space_len > 0 => file_pos = file_size
      /\ remain_len \in Int /\ remain_len < yuv_frame_len
  BY Sizes DEF IInv, RangesOK, BytesInv, EndInv, NotEnough
<1>1. CASE remain_len # 0 /\ blank_space_len = 0
  <2>1. Rotated = [buf |-> moved, pos |-> 0, end |-> remain_len,
                   blank |-> BLOCK_SIZE - remain_len]
    BY <1>1 DEF Rotated
  <2>2. /\ Rotated.buf = moved /\ Rotated.pos = 0 /\ Rotated.end = remain_len
        /\ Rotated.blank = BLOCK_SIZE - remain_len
    BY <2>1
  <2>3. remain_len \in 1 .. BLOCK_SIZE - 1
    BY <1>1, <1>a, Sizes
  <2>4. moved \in [0 .. BLOCK_SIZE - 1 -> Int]
    BY <1>1, <1>a, <2>3, Sizes
  <2>5. ASSUME NEW i \in 0 .. remain_len - 1
        PROVE  moved[i] = file_pos - remain_len + i
    <3>1. video_pos + i \in video_pos .. video_end - 1 /\ i \in 0 .. BLOCK_SIZE - 1
      BY <1>a, <2>3, Sizes
    <3>2. moved[i] = video_buf[video_pos + i]
      BY <1>a, <2>3, <3>1
    <3> QED
      BY <1>a, <3>1, <3>2
  <2>6. file_pos - remain_len = shown * yuv_frame_len
    BY <1>a
  <2> HIDE DEF moved, remain_len
  <2> QED
    BY <1>a, <2>2, <2>3, <2>4, <2>5, <2>6, Sizes
<1>2. CASE remain_len = 0 /\ video_end = BLOCK_SIZE
  <2>1. Rotated = [buf |-> video_buf, pos |-> 0, end |-> 0, blank |-> BLOCK_SIZE]
    BY <1>2 DEF Rotated
  <2>2. /\ Rotated.buf = video_buf /\ Rotated.pos = 0 /\ Rotated.end = 0
        /\ Rotated.blank = BLOCK_SIZE
    BY <2>1
  <2>3. file_pos = shown * yuv_frame_len
    BY <1>2, <1>a
  <2> QED
    BY <1>a, <2>2, <2>3, Sizes
<1>3. CASE ~(remain_len # 0 /\ blank_space_len = 0)
           /\ ~(remain_len = 0 /\ video_end = BLOCK_SIZE)
  <2>1. Rotated = [buf |-> video_buf, pos |-> video_pos, end |-> video_end,
                   blank |-> blank_space_len]
    BY <1>3 DEF Rotated
  <2>2. /\ Rotated.buf = video_buf /\ Rotated.pos = video_pos
        /\ Rotated.end = video_end /\ Rotated.blank = blank_space_len
    BY <2>1
  <2>3. blank_space_len > 0
    BY <1>3, <1>a, Sizes
  <2> QED
    BY <1>a, <2>2, <2>3, Sizes
<1> QED
  BY <1>1, <1>2, <1>3

-----------------------------------------------------------------------------

(* fread leaves blank space only when it has reached the end of the file.  *)
LEMMA ReadLenIs ==
  ASSUME RangesOK, NEW space \in Nat
  PROVE  /\ ReadLen(space) \in 0 .. space
         /\ ReadLen(space) <= file_size - file_pos
         /\ ReadLen(space) < space => ReadLen(space) = file_size - file_pos
<1>1. file_size - file_pos \in Nat
  BY DEF RangesOK
<1> QED
  BY <1>1, MinOfTwo DEF ReadLen

(* Lines 103-117 read the first block. *)
LEMMA StepStart ==
  ASSUME IInv, Start
  PROVE  IInv'
<1> DEFINE n == ReadLen(BLOCK_SIZE)
<1>a. /\ RangesOK
      /\ video_pos = 0 /\ video_end = 0 /\ file_pos = 0 /\ shown = 0
  BY DEF IInv, StartInv, Start
<1>1. /\ n \in 0 .. BLOCK_SIZE /\ n <= file_size
      /\ n < BLOCK_SIZE => n = file_size
  BY <1>a, ReadLenIs, Sizes DEF RangesOK
<1>2. /\ video_buf' = Filled(video_buf, 0, n)
      /\ file_pos' = n /\ video_end' = n /\ blank_space_len' = BLOCK_SIZE - n
      /\ main' = "event" /\ UNCHANGED <<file_size, video_pos, shown, frame>>
  BY <1>a, <1>1 DEF Start, shownVars
<1> HIDE DEF n
<1>3. /\ video_buf' \in [0 .. BLOCK_SIZE - 1 -> Int]
      /\ \A i \in 0 .. n - 1 : video_buf'[i] = i
  BY <1>a, <1>1, <1>2, Sizes DEF Filled, RangesOK
<1>4. RangesOK'
  BY <1>a, <1>1, <1>2, <1>3, Sizes DEF RangesOK
<1>5. StartInv' /\ EndInv'
  BY <1>a, <1>1, <1>2, Sizes DEF StartInv, EndInv
<1>6. BytesInv'
  BY <1>a, <1>1, <1>2, <1>3, Sizes DEF BytesInv
<1>7. FrameInv' /\ NothingBeyondEnd'
  BY <1>a, <1>2 DEF IInv, FrameInv, NothingBeyondEnd
<1> QED
  BY <1>4, <1>5, <1>6, <1>7 DEF IInv

(* A whole frame is in the buffer and is shown. *)
LEMMA StepRefreshNext ==
  ASSUME IInv, RefreshNext
  PROVE  IInv'
<1>a. /\ RangesOK /\ BytesInv /\ main = "event"
      /\ video_pos + yuv_frame_len <= video_end
  BY Sizes DEF IInv, RangesOK, RefreshNext, TakeEvent, NotEnough
<1>b. /\ shown' = shown + 1 /\ video_pos' = video_pos + yuv_frame_len
      /\ frame' = [i \in 1 .. yuv_frame_len |-> video_buf[video_pos + i - 1]]
      /\ UNCHANGED <<main, file_size, file_pos, video_buf, video_end,
                     blank_space_len>>
  BY DEF RefreshNext, TakeEvent, Render
<1>c. /\ shown * yuv_frame_len \in Nat
      /\ shown' * yuv_frame_len = shown * yuv_frame_len + yuv_frame_len
  BY <1>a, <1>b, NextFrame, Sizes DEF RangesOK
<1>1. RangesOK'
  BY <1>a, <1>b, Sizes DEF RangesOK
<1>2. StartInv' /\ EndInv'
  BY <1>a, <1>b, Sizes DEF IInv, StartInv, EndInv, RangesOK
<1>3. BytesInv'
  BY <1>a, <1>b, <1>c, Sizes DEF BytesInv, RangesOK
<1>4. \A i \in 1 .. yuv_frame_len :
        video_buf[video_pos + i - 1] = shown * yuv_frame_len + i - 1
  <2> TAKE i \in 1 .. yuv_frame_len
  <2>1. video_pos + i - 1 \in video_pos .. video_end - 1
    BY <1>a, Sizes DEF RangesOK
  <2>2. video_buf[video_pos + i - 1] = file_pos - video_end + (video_pos + i - 1)
    BY <1>a, <2>1 DEF BytesInv
  <2>3. file_pos - video_end + video_pos = shown * yuv_frame_len
    BY <1>a DEF BytesInv
  <2> QED
    BY <1>a, <1>c, <2>2, <2>3, Sizes DEF RangesOK
<1>5. FrameInv'
  <2>1. shown' - 1 = shown
    BY <1>a, <1>b DEF RangesOK
  <2> QED
    BY <1>b, <1>4, <2>1 DEF FrameInv
<1>6. NothingBeyondEnd'
  BY <1>a, <1>b, <1>c, Sizes DEF NothingBeyondEnd, BytesInv, RangesOK
<1> QED
  BY <1>1, <1>2, <1>3, <1>5, <1>6 DEF IInv

(* More is read behind what remains, then the frame is shown. *)
LEMMA StepRefreshRead ==
  ASSUME IInv, RefreshRead
  PROVE  IInv'
<1> DEFINE rest == Rotated.buf
           at   == Rotated.end
           pos  == Rotated.pos
           n    == ReadLen(Rotated.blank)
           head == shown * yuv_frame_len
<1>a. RangesOK /\ main = "event" /\ NotEnough
  BY DEF IInv, RefreshRead, TakeEvent
<1>b. /\ at \in 0 .. BLOCK_SIZE - 1 /\ pos \in 0 .. BLOCK_SIZE
      /\ Rotated.blank = BLOCK_SIZE - at
      /\ rest \in [0 .. BLOCK_SIZE - 1 -> Int]
      /\ file_pos - at + pos = head
      /\ \A i \in pos .. at - 1 : rest[i] = file_pos - at + i
      /\ file_pos # file_size => pos = 0
  BY <1>a, RotatedKeeps
<1>c. /\ n > 0 /\ video_buf' = Filled(rest, at, n)
      /\ file_pos' = file_pos + n /\ video_end' = at + n
      /\ blank_space_len' = BLOCK_SIZE - at - n
      /\ shown' = shown + 1 /\ video_pos' = pos + yuv_frame_len
      /\ frame' = [i \in 1 .. yuv_frame_len |-> video_buf'[pos + i - 1]]
      /\ UNCHANGED <<main, file_size>>
  BY <1>b DEF RefreshRead, TakeEvent, Render
<1>d. /\ n \in 0 .. BLOCK_SIZE - at /\ n <= file_size - file_pos
      /\ n < BLOCK_SIZE - at => n = file_size - file_pos
  <2> HIDE DEF at
  <2>1. BLOCK_SIZE - at \in Nat /\ n = ReadLen(BLOCK_SIZE - at)
    BY <1>b, Sizes
  <2> HIDE DEF n
  <2> QED
    BY <1>a, <2>1, ReadLenIs
<1>e. file_size \in Nat /\ file_pos \in 0 .. file_size /\ shown \in Nat
  BY <1>a DEF RangesOK
<1>f. head \in Nat /\ shown' * yuv_frame_len = head + yuv_frame_len
  BY <1>c, <1>e, NextFrame, Sizes
<1>g. (shown' - 1) * yuv_frame_len = head
  <2>1. shown' - 1 = shown
    BY <1>c, <1>e
  <2> QED
    BY <2>1
<1> HIDE DEF rest, at, pos, n, head
<1>h. pos = 0 /\ file_pos - at = head
  BY <1>b, <1>c, <1>d, <1>e
<1>i. /\ video_buf' \in [0 .. BLOCK_SIZE - 1 -> Int]
      /\ \A i \in 0 .. video_end' - 1 : video_buf'[i] = head + i
  <2>1. ASSUME NEW i \in 0 .. BLOCK_SIZE - 1
        PROVE  video_buf'[i] = IF i \in at .. at + n - 1 THEN file_pos + i - at
                                                         ELSE rest[i]
    BY <1>b, <1>c DEF Filled
  <2>2. ASSUME NEW i \in 0 .. video_end' - 1 PROVE video_buf'[i] = head + i
    <3>1. i \in 0 .. BLOCK_SIZE - 1
      BY <1>b, <1>c, <1>d, Sizes
    <3>2. i \in at .. at + n - 1 \/ i \in pos .. at - 1
      BY <1>b, <1>c, <1>d, <1>h, <3>1, Sizes
    <3> QED
      BY <1>b, <1>d, <1>e, <1>h, <2>1, <3>1, <3>2, Sizes
  <2>3. video_buf' \in [0 .. BLOCK_SIZE - 1 -> Int]
    BY <1>b, <1>c, <1>e, Sizes DEF Filled
  <2> QED
    BY <2>2, <2>3
<1>1. RangesOK'
  BY <1>b, <1>c, <1>d, <1>e, <1>h, <1>i, Sizes DEF RangesOK
<1>2. StartInv' /\ EndInv'
  BY <1>a, <1>b, <1>c, <1>d, <1>e, <1>h, Sizes DEF StartInv, EndInv
<1>3. BytesInv'
  <2>1. file_pos' - video_end' = head
    BY <1>b, <1>c, <1>d, <1>e, <1>h, Sizes
  <2>2. video_pos' = yuv_frame_len
    BY <1>c, <1>h, Sizes
  <2>3. file_pos' - video_end' + video_pos' = shown' * yuv_frame_len
    BY <1>f, <2>1, <2>2
  <2>4. ASSUME NEW i \in video_pos' .. video_end' - 1
        PROVE  video_buf'[i] = file_pos' - video_end' + i
    <3>1. i \in 0 .. video_end' - 1
      BY <1>b, <1>c, <1>d, <2>2, Sizes
    <3> QED
      BY <1>i, <2>1, <3>1
  <2> QED
    BY <2>3, <2>4 DEF BytesInv
<1>4. FrameInv'
  <2> SUFFICES ASSUME head + yuv_frame_len <= file_size
               PROVE  frame' = [i \in 1 .. yuv_frame_len |-> head + i - 1]
    BY <1>c, <1>f, <1>g DEF FrameInv
  <2>1. yuv_frame_len <= video_end'
    BY <1>b, <1>c, <1>d, <1>e, <1>f, <1>h, Sizes
  <2>2. ASSUME NEW i \in 1 .. yuv_frame_len
        PROVE  video_buf'[pos + i - 1] = head + i - 1
    <3>1. i - 1 \in 0 .. video_end' - 1 /\ pos + i - 1 = i - 1
      BY <1>b, <1>c, <1>d, <1>h, <2>1, Sizes
    <3>2. video_buf'[i - 1] = head + (i - 1)
      BY <1>i, <3>1
    <3> QED
      BY <1>f, <3>1, <3>2
  <2> QED
    BY <1>c, <2>2
<1>5. NothingBeyondEnd'
  BY <1>b, <1>c, <1>d, <1>e, <1>f, <1>h, Sizes DEF NothingBeyondEnd
<1> QED
  BY <1>1, <1>2, <1>3, <1>4, <1>5 DEF IInv

(* The file has ended: nothing is shown, and the bytes that remain stay    *)
(* where they are in the file.                                             *)
LEMMA StepRefreshEof ==
  ASSUME IInv, RefreshEof
  PROVE  IInv'
<1> DEFINE rest == Rotated.buf
           at   == Rotated.end
           pos  == Rotated.pos
           n    == ReadLen(Rotated.blank)
<1>a. RangesOK /\ main = "event" /\ NotEnough
  BY DEF IInv, RefreshEof, TakeEvent
<1>b. /\ at \in 0 .. BLOCK_SIZE - 1 /\ pos \in 0 .. BLOCK_SIZE
      /\ Rotated.blank = BLOCK_SIZE - at
      /\ rest \in [0 .. BLOCK_SIZE - 1 -> Int]
      /\ file_pos - at + pos = shown * yuv_frame_len
      /\ \A i \in pos .. at - 1 : rest[i] = file_pos - at + i
  BY <1>a, RotatedKeeps
<1>c. /\ n = 0 /\ video_buf' = rest /\ video_end' = at /\ video_pos' = pos
      /\ blank_space_len' = BLOCK_SIZE - at
      /\ UNCHANGED <<main, file_size, file_pos, shown, frame>>
  BY <1>b DEF RefreshEof, TakeEvent, shownVars
<1>d. n < BLOCK_SIZE - at => n = file_size - file_pos
  <2> HIDE DEF at
  <2>1. BLOCK_SIZE - at \in Nat /\ n = ReadLen(BLOCK_SIZE - at)
    BY <1>b, Sizes
  <2> HIDE DEF n
  <2> QED
    BY <1>a, <2>1, ReadLenIs
<1> HIDE DEF rest, at, pos, n
<1>e. file_pos = file_size
  BY <1>a, <1>b, <1>c, <1>d, Sizes DEF RangesOK
<1>1. RangesOK'
  BY <1>a, <1>b, <1>c, Sizes DEF RangesOK
<1>2. StartInv' /\ EndInv'
  BY <1>a, <1>c, <1>e DEF StartInv, EndInv
<1>3. BytesInv'
  BY <1>b, <1>c DEF BytesInv
<1>4. FrameInv' /\ NothingBeyondEnd'
  BY <1>c DEF IInv, FrameInv, NothingBeyondEnd
<1> QED
  BY <1>1, <1>2, <1>3, <1>4 DEF IInv

(* The other steps leave the buffer and the screen alone. *)
LEMMA StepBeside ==
  ASSUME IInv, UNCHANGED <<file_size, bufVars, shownVars>>,
         main' = main \/ main' = "exit"
  PROVE  IInv'
<1> USE DEF bufVars, shownVars
<1>1. RangesOK' /\ BytesInv'
  BY DEF IInv, RangesOK, BytesInv
<1>2. StartInv' /\ EndInv'
  BY DEF IInv, StartInv, EndInv
<1>3. FrameInv' /\ NothingBeyondEnd'
  BY DEF IInv, FrameInv, NothingBeyondEnd
<1> QED
  BY <1>1, <1>2, <1>3 DEF IInv

LEMMA StepIInv == IInv /\ [Next]_vars => IInv'
<1> SUFFICES ASSUME IInv, [Next]_vars PROVE IInv'
  OBVIOUS
<1>1. CASE Main
  <2>1. CASE StartFails \/ WindowEvent \/ QuitAsked \/ QuitEvent
    BY <2>1, StepBeside DEF StartFails, WindowEvent, QuitAsked, QuitEvent,
       TakeEvent
  <2> QED
    BY <1>1, <2>1, StepStart, StepRefreshNext, StepRefreshRead, StepRefreshEof
       DEF Main
<1>2. CASE refresh_video_timer \/ User
  BY <1>2, StepBeside DEF refresh_video_timer, TimerStart, TimerLoop, TimerPush,
     TimerDone, User
<1>3. CASE Done \/ UNCHANGED vars
  BY <1>3, StepBeside DEF Done, vars
<1> QED
  BY <1>1, <1>2, <1>3 DEF Next

LEMMA IInvHolds == Spec => []IInv
BY InitIInv, StepIInv, PTL DEF Spec

-----------------------------------------------------------------------------

(* The unsigned lengths never pass below zero where they are used, and     *)
(* texture and memcpy read inside video_buf.                               *)
THEOREM BufferSafeHolds == Spec => []BufferSafe
<1>1. IInv => BufferSafe
  BY Sizes DEF IInv, RangesOK, EndInv, BufferSafe
<1> QED
  BY <1>1, IInvHolds, PTL

(* Nothing is shown beyond the incomplete frame at the end of the file.    *)
THEOREM NothingBeyondEndHolds == Spec => []NothingBeyondEnd
<1>1. IInv => NothingBeyondEnd
  BY DEF IInv
<1> QED
  BY <1>1, IInvHolds, PTL

(* Frame k on the screen is exactly frame k of the file, across every      *)
(* refill of the buffer.                                                   *)
THEOREM FramesExactHolds == Spec => []FramesExact
<1>1. IInv => FramesExact
  <2> SUFFICES ASSUME IInv, shown \in 1 .. WholeFrames
               PROVE  shown * yuv_frame_len <= file_size
    BY DEF IInv, FrameInv, FramesExact
  <2> QED
    BY Sizes DEF IInv, RangesOK, WholeFrames
<1> QED
  BY <1>1, IInvHolds, PTL

=============================================================================
