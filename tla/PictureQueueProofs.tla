------------------------ MODULE PictureQueueProofs ------------------------
(***************************************************************************)
(* Proofs about the picture queue, for every ring size and every number of *)
(* pictures.  The two threads share no lock on the slots; what keeps them  *)
(* apart is RingInv, the arithmetic that ties pictq_size to the distance   *)
(* of the two indices, with the increments each thread still owes.         *)
(***************************************************************************)
EXTENDS PictureQueue, TLAPS

(* pictq_mutex is held exactly in the two critical sections. *)
MutexInv ==
  /\ pictq_mutex = "decoder" <=> dec_pc = "test"
  /\ pictq_mutex = "main" <=> main_pc = "signal"

(* There is room while the decoder writes, and a picture while the main    *)
(* thread shows one.                                                       *)
RoomInv ==
  /\ Writing \/ dec_pc = "publish" => pictq_size < VIDEO_PICTURE_QUEUE_SIZE
  /\ dec_pc = "room" => pictq_size < VIDEO_PICTURE_QUEUE_SIZE \/ quit
  /\ Reading \/ main_pc = "lock" => pictq_size > 0

(* The slots between the indices: pictq_size, plus the picture the decoder *)
(* has still to count, minus the one the main thread has still to discount.*)
Used == pictq_size + (IF dec_pc = "publish" THEN 1 ELSE 0)
                   - (IF main_pc = "lock" THEN 1 ELSE 0)

RingInv ==
  /\ Used \in 0 .. VIDEO_PICTURE_QUEUE_SIZE
  /\ \/ pictq_windex = pictq_rindex + Used
     \/ pictq_windex = pictq_rindex + Used - VIDEO_PICTURE_QUEUE_SIZE

(* How far slot i is behind the read index. *)
Pos(i) == IF i >= pictq_rindex THEN i - pictq_rindex
          ELSE i - pictq_rindex + VIDEO_PICTURE_QUEUE_SIZE

(* The last picture whose slot the main thread has left. *)
Last == IF main_pc = "rindex" THEN shown - 1 ELSE shown

(* The used slots hold the pictures after Last, in order and complete. *)
ContentInv ==
  \A i \in Slots : Pos(i) < Used => bmp[i] # NULL /\ pic[i] = Last + Pos(i) + 1

(* The frame in the decoder's hands is the next one. *)
FrameInv ==
  /\ decoded = Last + Used + (IF dec_pc \in {"decode", "publish"} THEN 0 ELSE 1)
  /\ dec_pc \in {"fill", "filling", "windex"} => bmp[pictq_windex] # NULL
  /\ dec_pc = "windex" => pic[pictq_windex] = decoded
  /\ main_pc \in {"rindex", "lock"} => shown > 0

IInv == TypeOK /\ MutexInv /\ RoomInv /\ RingInv /\ ContentInv /\ FrameInv

(* The invariant holds at the start. *)
LEMMA InitIInv == Init => IInv
<1> SUFFICES ASSUME Init PROVE IInv
  OBVIOUS
<1> USE PictureQueueAssumption DEF Init, Slots
<1>1. TypeOK
  <2>1. bmp \in [Slots -> Dims \cup {NULL}]
    OBVIOUS
  <2>2. pic \in [Slots -> 0 .. MaxPictures]
    OBVIOUS
  <2>3. pictq_size \in 0 .. VIDEO_PICTURE_QUEUE_SIZE
        /\ pictq_rindex \in Slots /\ pictq_windex \in Slots
    OBVIOUS
  <2>4. decoded \in 0 .. MaxPictures /\ shown \in 0 .. MaxPictures
    OBVIOUS
  <2> QED BY <2>1, <2>2, <2>3, <2>4 DEF TypeOK
<1>2. MutexInv /\ RoomInv
  BY DEF MutexInv, RoomInv, Writing, Reading
<1>3. RingInv
  BY DEF RingInv, Used
<1>4. ContentInv
  BY DEF ContentInv, Used, Pos
<1>5. FrameInv
  BY DEF FrameInv, Used, Last
<1> QED BY <1>1, <1>2, <1>3, <1>4, <1>5 DEF IInv

(* The picture under the read index is the next one to show. *)
LEMMA ShowsNext ==
  IInv /\ main_pc = "show" => /\ bmp[pictq_rindex] # NULL
                              /\ pic[pictq_rindex] = shown + 1
<1> SUFFICES ASSUME IInv, main_pc = "show"
             PROVE  bmp[pictq_rindex] # NULL /\ pic[pictq_rindex] = shown + 1
  OBVIOUS
<1>1. pictq_rindex \in Slots /\ Pos(pictq_rindex) = 0
  BY PictureQueueAssumption DEF IInv, TypeOK, Slots, Pos
<1>2. 0 < Used /\ Last = shown /\ shown \in Nat
  BY DEF IInv, TypeOK, RoomInv, Reading, Used, Last
<1>3. bmp[pictq_rindex] # NULL /\ pic[pictq_rindex] = Last + 0 + 1
  BY <1>1, <1>2 DEF IInv, ContentInv
<1> QED BY <1>2, <1>3

(* Every step keeps the state well typed. *)
LEMMA StepTypeOK == IInv /\ [Next]_vars => TypeOK'
<1> SUFFICES ASSUME IInv, [Next]_vars PROVE TypeOK'
  OBVIOUS
<1> USE PictureQueueAssumption DEF IInv, TypeOK, slotVars, Slots, RoomInv, Writing,
        Reading, Advance, QueueFull
<1>1. CASE DecodeFrame
  BY <1>1 DEF DecodeFrame, DecodeUnchanged
<1>2. CASE QueueLock
  BY <1>2 DEF QueueLock, DecodeUnchanged
<1>3. CASE QueueTest
  BY <1>3 DEF QueueTest, DecodeUnchanged
<1>4. CASE SpuriousWakeup
  BY <1>4 DEF SpuriousWakeup, DecodeUnchanged
<1>5. CASE QueueRoom
  BY <1>5 DEF QueueRoom, DecodeUnchanged
<1>6. CASE AllocFree
  BY <1>6 DEF AllocFree, DecodeUnchanged
<1>7. CASE AllocNew
  BY <1>7 DEF AllocNew, DecodeUnchanged
<1>8. CASE FillStart
  BY <1>8 DEF FillStart, DecodeUnchanged
<1>9. CASE FillDone
  BY <1>9 DEF FillDone, DecodeUnchanged
<1>10. CASE AdvanceWindex
  BY <1>10 DEF AdvanceWindex, DecodeUnchanged
<1>11. CASE Publish
  BY <1>11 DEF Publish, DecodeUnchanged
<1>12. CASE RefreshTest
  BY <1>12 DEF RefreshTest, MainUnchanged
<1>13. CASE VideoDisplay
  BY <1>13 DEF VideoDisplay, MainUnchanged
<1>14. CASE AdvanceRindex
  BY <1>14 DEF AdvanceRindex, MainUnchanged
<1>15. CASE Release
  BY <1>15 DEF Release, MainUnchanged
<1>16. CASE SignalRoom
  BY <1>16 DEF SignalRoom, MainUnchanged
<1>17. CASE Quit
  BY <1>17 DEF Quit, MainUnchanged
<1>18. CASE UNCHANGED vars
  BY <1>18 DEF vars
<1> QED
  BY <1>1, <1>2, <1>3, <1>4, <1>5, <1>6, <1>7, <1>8, <1>9, <1>10, <1>11,
     <1>12, <1>13, <1>14, <1>15, <1>16, <1>17, <1>18
  DEF Next, queue_picture, video_refresh_timer

(* Every step keeps the mutex in its critical section. *)
LEMMA StepMutex == IInv /\ [Next]_vars => MutexInv'
<1> SUFFICES ASSUME IInv, [Next]_vars PROVE MutexInv'
  OBVIOUS
<1> USE PictureQueueAssumption DEF IInv, TypeOK, slotVars, MutexInv
<1>1. CASE DecodeFrame
  BY <1>1 DEF DecodeFrame, DecodeUnchanged
<1>2. CASE QueueLock
  BY <1>2 DEF QueueLock, DecodeUnchanged
<1>3. CASE QueueTest
  BY <1>3 DEF QueueTest, DecodeUnchanged
<1>4. CASE SpuriousWakeup
  BY <1>4 DEF SpuriousWakeup, DecodeUnchanged
<1>5. CASE QueueRoom
  BY <1>5 DEF QueueRoom, DecodeUnchanged
<1>6. CASE AllocFree
  BY <1>6 DEF AllocFree, DecodeUnchanged
<1>7. CASE AllocNew
  BY <1>7 DEF AllocNew, DecodeUnchanged
<1>8. CASE FillStart
  BY <1>8 DEF FillStart, DecodeUnchanged
<1>9. CASE FillDone
  BY <1>9 DEF FillDone, DecodeUnchanged
<1>10. CASE AdvanceWindex
  BY <1>10 DEF AdvanceWindex, DecodeUnchanged
<1>11. CASE Publish
  BY <1>11 DEF Publish, DecodeUnchanged
<1>12. CASE RefreshTest
  BY <1>12 DEF RefreshTest, MainUnchanged
<1>13. CASE VideoDisplay
  BY <1>13 DEF VideoDisplay, MainUnchanged
<1>14. CASE AdvanceRindex
  BY <1>14 DEF AdvanceRindex, MainUnchanged
<1>15. CASE Release
  BY <1>15 DEF Release, MainUnchanged
<1>16. CASE SignalRoom
  BY <1>16 DEF SignalRoom, MainUnchanged
<1>17. CASE Quit
  BY <1>17 DEF Quit, MainUnchanged
<1>18. CASE UNCHANGED vars
  BY <1>18 DEF vars
<1> QED
  BY <1>1, <1>2, <1>3, <1>4, <1>5, <1>6, <1>7, <1>8, <1>9, <1>10, <1>11,
     <1>12, <1>13, <1>14, <1>15, <1>16, <1>17, <1>18
  DEF Next, queue_picture, video_refresh_timer

(* Every step keeps room and picture. *)
LEMMA StepRoom == IInv /\ [Next]_vars => RoomInv'
<1> SUFFICES ASSUME IInv, [Next]_vars PROVE RoomInv'
  OBVIOUS
<1> USE PictureQueueAssumption DEF IInv, TypeOK, slotVars, Slots, MutexInv, RoomInv,
        Writing, Reading, QueueFull
<1>1. CASE DecodeFrame
  BY <1>1 DEF DecodeFrame, DecodeUnchanged
<1>2. CASE QueueLock
  BY <1>2 DEF QueueLock, DecodeUnchanged
<1>3. CASE QueueTest
  BY <1>3 DEF QueueTest, DecodeUnchanged
<1>4. CASE SpuriousWakeup
  BY <1>4 DEF SpuriousWakeup, DecodeUnchanged
<1>5. CASE QueueRoom
  BY <1>5 DEF QueueRoom, DecodeUnchanged
<1>6. CASE AllocFree
  BY <1>6 DEF AllocFree, DecodeUnchanged
<1>7. CASE AllocNew
  BY <1>7 DEF AllocNew, DecodeUnchanged
<1>8. CASE FillStart
  BY <1>8 DEF FillStart, DecodeUnchanged
<1>9. CASE FillDone
  BY <1>9 DEF FillDone, DecodeUnchanged
<1>10. CASE AdvanceWindex
  BY <1>10 DEF AdvanceWindex, DecodeUnchanged
<1>11. CASE Publish
  BY <1>11 DEF Publish, DecodeUnchanged
<1>12. CASE RefreshTest
  BY <1>12 DEF RefreshTest, MainUnchanged
<1>13. CASE VideoDisplay
  BY <1>13 DEF VideoDisplay, MainUnchanged
<1>14. CASE AdvanceRindex
  BY <1>14 DEF AdvanceRindex, MainUnchanged
<1>15. CASE Release
  BY <1>15 DEF Release, MainUnchanged
<1>16. CASE SignalRoom
  BY <1>16 DEF SignalRoom, MainUnchanged
<1>17. CASE Quit
  BY <1>17 DEF Quit, MainUnchanged
<1>18. CASE UNCHANGED vars
  BY <1>18 DEF vars
<1> QED
  BY <1>1, <1>2, <1>3, <1>4, <1>5, <1>6, <1>7, <1>8, <1>9, <1>10, <1>11,
     <1>12, <1>13, <1>14, <1>15, <1>16, <1>17, <1>18
  DEF Next, queue_picture, video_refresh_timer

(* Every step keeps the indices at the distance the counter says. *)
LEMMA StepRing == IInv /\ [Next]_vars => RingInv'
<1> SUFFICES ASSUME IInv, [Next]_vars PROVE RingInv'
  OBVIOUS
<1> USE PictureQueueAssumption DEF IInv, TypeOK, slotVars, Slots, RoomInv, Writing,
        Reading, RingInv, Used, Advance
<1>1. CASE DecodeFrame
  BY <1>1 DEF DecodeFrame, DecodeUnchanged
<1>2. CASE QueueLock
  BY <1>2 DEF QueueLock, DecodeUnchanged
<1>3. CASE QueueTest
  BY <1>3 DEF QueueTest, DecodeUnchanged
<1>4. CASE SpuriousWakeup
  BY <1>4 DEF SpuriousWakeup, DecodeUnchanged
<1>5. CASE QueueRoom
  BY <1>5 DEF QueueRoom, DecodeUnchanged
<1>6. CASE AllocFree
  BY <1>6 DEF AllocFree, DecodeUnchanged
<1>7. CASE AllocNew
  BY <1>7 DEF AllocNew, DecodeUnchanged
<1>8. CASE FillStart
  BY <1>8 DEF FillStart, DecodeUnchanged
<1>9. CASE FillDone
  BY <1>9 DEF FillDone, DecodeUnchanged
<1>10. CASE AdvanceWindex
  BY <1>10 DEF AdvanceWindex, DecodeUnchanged
<1>11. CASE Publish
  BY <1>11 DEF Publish, DecodeUnchanged
<1>12. CASE RefreshTest
  BY <1>12 DEF RefreshTest, MainUnchanged
<1>13. CASE VideoDisplay
  BY <1>13 DEF VideoDisplay, MainUnchanged
<1>14. CASE AdvanceRindex
  BY <1>14 DEF AdvanceRindex, MainUnchanged
<1>15. CASE Release
  BY <1>15 DEF Release, MainUnchanged
<1>16. CASE SignalRoom
  BY <1>16 DEF SignalRoom, MainUnchanged
<1>17. CASE Quit
  BY <1>17 DEF Quit, MainUnchanged
<1>18. CASE UNCHANGED vars
  BY <1>18 DEF vars
<1> QED
  BY <1>1, <1>2, <1>3, <1>4, <1>5, <1>6, <1>7, <1>8, <1>9, <1>10, <1>11,
     <1>12, <1>13, <1>14, <1>15, <1>16, <1>17, <1>18
  DEF Next, queue_picture, video_refresh_timer

(* Every step keeps the used slots complete and in order. *)
LEMMA StepContent == IInv /\ [Next]_vars => ContentInv'
<1> SUFFICES ASSUME IInv, [Next]_vars PROVE ContentInv'
  OBVIOUS
<1> USE PictureQueueAssumption DEF IInv, TypeOK, slotVars, Slots, RoomInv, Writing,
        Reading, RingInv, Used, Advance, Pos, Last, ContentInv, FrameInv
<1>1. CASE DecodeFrame
  BY <1>1 DEF DecodeFrame, DecodeUnchanged
<1>2. CASE QueueLock
  BY <1>2 DEF QueueLock, DecodeUnchanged
<1>3. CASE QueueTest
  BY <1>3 DEF QueueTest, DecodeUnchanged
<1>4. CASE SpuriousWakeup
  BY <1>4 DEF SpuriousWakeup, DecodeUnchanged
<1>5. CASE QueueRoom
  BY <1>5 DEF QueueRoom, DecodeUnchanged
<1>6. CASE AllocFree
  BY <1>6 DEF AllocFree, DecodeUnchanged
<1>7. CASE AllocNew
  BY <1>7 DEF AllocNew, DecodeUnchanged
<1>8. CASE FillStart
  BY <1>8 DEF FillStart, DecodeUnchanged
<1>9. CASE FillDone
  BY <1>9 DEF FillDone, DecodeUnchanged
<1>10. CASE AdvanceWindex
  <2>1. /\ Pos(pictq_windex) = Used
        /\ Used' = Used + 1
        /\ Last' = Last
        /\ pic' = pic /\ bmp' = bmp /\ pictq_rindex' = pictq_rindex
        /\ decoded = Last + Used + 1
        /\ bmp[pictq_windex] # NULL /\ pic[pictq_windex] = decoded
    BY <1>10 DEF AdvanceWindex, DecodeUnchanged
  <2>2. ASSUME NEW i \in Slots, Pos(i) = Used PROVE i = pictq_windex
    BY <1>10, <2>2 DEF AdvanceWindex
  <2>3. ASSUME NEW i \in Slots, Pos(i)' < Used'
        PROVE  (bmp[i] # NULL /\ pic[i] = Last + Pos(i) + 1)'
    <3>1. Pos(i)' = Pos(i) /\ Pos(i) \in Int /\ Used \in Int
      BY <2>1
    <3>2. CASE Pos(i) < Used
      BY <2>1, <3>1, <3>2
    <3>3. CASE Pos(i) = Used
      BY <2>1, <2>2, <3>1, <3>3
    <3>4. Pos(i) < Used \/ Pos(i) = Used
      BY <2>1, <2>3, <3>1
    <3> QED BY <3>2, <3>3, <3>4
  <2> QED BY <2>3 DEF ContentInv
<1>11. CASE Publish
  BY <1>11 DEF Publish, DecodeUnchanged
<1>12. CASE RefreshTest
  BY <1>12 DEF RefreshTest, MainUnchanged
<1>13. CASE VideoDisplay
  <2>1. shown' = shown + 1
    BY <1>13, ShowsNext DEF VideoDisplay
  <2> QED BY <1>13, <2>1 DEF VideoDisplay, MainUnchanged
<1>14. CASE AdvanceRindex
  <2>1. /\ Used \in Int /\ Used' = Used - 1 /\ Used <= VIDEO_PICTURE_QUEUE_SIZE
        /\ Last \in Int /\ Last' = Last + 1
        /\ pic' = pic /\ bmp' = bmp
    BY <1>14 DEF AdvanceRindex, MainUnchanged
  <2>2. pictq_rindex' = Advance(pictq_rindex)
    BY <1>14 DEF AdvanceRindex
  <2>3. ASSUME NEW i \in Slots
        PROVE  /\ Pos(i) \in Int
               /\ i # pictq_rindex => Pos(i)' = Pos(i) - 1
               /\ i = pictq_rindex => Pos(i)' = VIDEO_PICTURE_QUEUE_SIZE - 1
    BY <2>2
  <2>4. ASSUME NEW i \in Slots, Pos(i)' < Used'
        PROVE  (bmp[i] # NULL /\ pic[i] = Last + Pos(i) + 1)'
    <3>1. i # pictq_rindex
      BY <2>1, <2>3, <2>4
    <3>2. Pos(i)' = Pos(i) - 1 /\ Pos(i) \in Int /\ Pos(i) < Used
      BY <2>1, <2>3, <2>4, <3>1
    <3>3. bmp[i] # NULL /\ pic[i] = Last + Pos(i) + 1
      BY <3>2
    <3> QED BY ONLY <2>1, <3>2, <3>3
  <2> QED BY <2>4 DEF ContentInv
<1>15. CASE Release
  BY <1>15 DEF Release, MainUnchanged
<1>16. CASE SignalRoom
  BY <1>16 DEF SignalRoom, MainUnchanged
<1>17. CASE Quit
  BY <1>17 DEF Quit, MainUnchanged
<1>18. CASE UNCHANGED vars
  BY <1>18 DEF vars
<1> QED
  BY <1>1, <1>2, <1>3, <1>4, <1>5, <1>6, <1>7, <1>8, <1>9, <1>10, <1>11,
     <1>12, <1>13, <1>14, <1>15, <1>16, <1>17, <1>18
  DEF Next, queue_picture, video_refresh_timer

(* Every step keeps the decoder's frame the next one. *)
LEMMA StepFrame == IInv /\ [Next]_vars => FrameInv'
<1> SUFFICES ASSUME IInv, [Next]_vars PROVE FrameInv'
  OBVIOUS
<1> USE PictureQueueAssumption DEF IInv, TypeOK, slotVars, Slots, RoomInv, Writing,
        Reading, RingInv, Used, Pos, Last, ContentInv, FrameInv
<1>1. CASE DecodeFrame
  BY <1>1 DEF DecodeFrame, DecodeUnchanged
<1>2. CASE QueueLock
  BY <1>2 DEF QueueLock, DecodeUnchanged
<1>3. CASE QueueTest
  BY <1>3 DEF QueueTest, DecodeUnchanged
<1>4. CASE SpuriousWakeup
  BY <1>4 DEF SpuriousWakeup, DecodeUnchanged
<1>5. CASE QueueRoom
  BY <1>5 DEF QueueRoom, DecodeUnchanged
<1>6. CASE AllocFree
  BY <1>6 DEF AllocFree, DecodeUnchanged
<1>7. CASE AllocNew
  BY <1>7 DEF AllocNew, DecodeUnchanged
<1>8. CASE FillStart
  BY <1>8 DEF FillStart, DecodeUnchanged
<1>9. CASE FillDone
  BY <1>9 DEF FillDone, DecodeUnchanged
<1>10. CASE AdvanceWindex
  BY <1>10 DEF AdvanceWindex, DecodeUnchanged
<1>11. CASE Publish
  BY <1>11 DEF Publish, DecodeUnchanged
<1>12. CASE RefreshTest
  BY <1>12 DEF RefreshTest, MainUnchanged
<1>13. CASE VideoDisplay
  <2>1. shown' = shown + 1
    BY <1>13, ShowsNext DEF VideoDisplay
  <2> QED BY <1>13, <2>1 DEF VideoDisplay, MainUnchanged
<1>14. CASE AdvanceRindex
  BY <1>14 DEF AdvanceRindex, MainUnchanged
<1>15. CASE Release
  BY <1>15 DEF Release, MainUnchanged
<1>16. CASE SignalRoom
  BY <1>16 DEF SignalRoom, MainUnchanged
<1>17. CASE Quit
  BY <1>17 DEF Quit, MainUnchanged
<1>18. CASE UNCHANGED vars
  BY <1>18 DEF vars
<1> QED
  BY <1>1, <1>2, <1>3, <1>4, <1>5, <1>6, <1>7, <1>8, <1>9, <1>10, <1>11,
     <1>12, <1>13, <1>14, <1>15, <1>16, <1>17, <1>18
  DEF Next, queue_picture, video_refresh_timer

(* The invariant holds in every reachable state. *)
THEOREM Invariant == Spec => []IInv
<1>1. IInv /\ [Next]_vars => IInv'
  BY StepTypeOK, StepMutex, StepRoom, StepRing, StepContent, StepFrame
  DEF IInv
<1> QED BY InitIInv, <1>1, PTL DEF Spec

(* Type correctness; in particular pictq_size stays within the ring and    *)
(* both indices stay inside pictq[].                                       *)
THEOREM TypeCorrect == Spec => []TypeOK
BY Invariant, PTL DEF IInv

(* No data race on a slot: queue_picture (lines 583-608) and video_display *)
(* (445-463) never work on the same slot at the same time.                 *)
THEOREM SlotsApart == Spec => []NoSlotRace
<1>1. IInv => NoSlotRace
  BY PictureQueueAssumption
  DEF IInv, NoSlotRace, TypeOK, Slots, RoomInv, RingInv, Used, Writing, Reading
<1> QED BY <1>1, Invariant, PTL

(* Every decoded picture is shown once, complete and in decoding order.    *)
THEOREM DisplayOrder == Spec => []ShownInOrder
<1>1. IInv => ShownInOrder
  BY ShowsNext DEF ShownInOrder
<1> QED BY <1>1, Invariant, PTL

(* The decoder is never left waiting in a ring that has room.              *)
THEOREM WakeupsKept == Spec => []NoLostWakeup
<1>1. Init => NoLostWakeup
  BY DEF Init, NoLostWakeup
<1>2. IInv /\ NoLostWakeup /\ [Next]_vars => NoLostWakeup'
  BY PictureQueueAssumption
  DEF IInv, TypeOK, MutexInv, NoLostWakeup, QueueFull, Next, vars, slotVars,
      queue_picture, video_refresh_timer, DecodeUnchanged, MainUnchanged,
      DecodeFrame, QueueLock, QueueTest, SpuriousWakeup, QueueRoom, AllocFree,
      AllocNew, FillStart, FillDone, AdvanceWindex, Publish, RefreshTest,
      VideoDisplay, AdvanceRindex, Release, SignalRoom, Quit
<1> QED BY <1>1, <1>2, Invariant, PTL DEF Spec

----------------------------------------------------------------------------
(* The ring implements BoundedBuffer.  The buffer of the mapping is read   *)
(* out of the slots; OldSlot adds what the mapping needs to know about the *)
(* slot the read index has left but the counter still includes.            *)

OldSlot == main_pc = "lock" => pic[FirstSlot] = shown

(* The slot being given back is not written before it is discounted.       *)
LEMMA OldSlotKept == Spec => []OldSlot
<1>1. Init => OldSlot
  BY DEF Init, OldSlot
<1>2. IInv /\ OldSlot /\ [Next]_vars => OldSlot'
  <2> SUFFICES ASSUME IInv, OldSlot, [Next]_vars, main_pc' = "lock"
               PROVE  pic'[FirstSlot'] = shown'
    BY DEF OldSlot
  <2> USE PictureQueueAssumption
      DEF IInv, TypeOK, Slots, slotVars, OldSlot, FirstSlot
  <2>1. CASE AdvanceRindex
    <3>1. FirstSlot' = pictq_rindex /\ pic' = pic /\ shown' = shown
      BY <2>1 DEF AdvanceRindex, MainUnchanged, Advance
    <3>2. Pos(pictq_rindex) = 0 /\ 0 < Used /\ Last = shown - 1 /\ shown \in Nat
      BY <2>1 DEF AdvanceRindex, Pos, Used, RoomInv, Reading, Last
    <3>3. pic[pictq_rindex] = Last + 0 + 1
      BY <3>2 DEF ContentInv
    <3> QED BY <3>1, <3>2, <3>3
  <2>2. CASE AllocFree \/ FillStart \/ FillDone
    <3>1. /\ main_pc = "lock" /\ pictq_rindex' = pictq_rindex /\ shown' = shown
          /\ \A i \in Slots : i # pictq_windex => pic'[i] = pic[i]
      BY <2>2 DEF AllocFree, FillStart, FillDone, DecodeUnchanged
    <3>2. FirstSlot \in Slots /\ FirstSlot' = FirstSlot
      BY <3>1
    <3>3. FirstSlot # pictq_windex
      BY <2>2, <3>1 DEF AllocFree, FillStart, FillDone, Writing, RoomInv,
                        RingInv, Used
    <3> QED BY <3>1, <3>2, <3>3
  <2>3. CASE UNCHANGED <<pic, pictq_rindex, shown, main_pc>>
    BY <2>3
  <2>4. AdvanceRindex \/ AllocFree \/ FillStart \/ FillDone
        \/ UNCHANGED <<pic, pictq_rindex, shown, main_pc>>
    BY DEF Next, vars, queue_picture, video_refresh_timer, DecodeUnchanged,
           MainUnchanged, DecodeFrame, QueueLock, QueueTest, SpuriousWakeup,
           QueueRoom, AllocNew, AdvanceWindex, Publish, RefreshTest,
           VideoDisplay, Release, SignalRoom, Quit
  <2> QED BY <2>1, <2>2, <2>3, <2>4
<1> QED BY <1>1, <1>2, Invariant, PTL DEF Spec

(* The last picture that has left the buffer. *)
Left == IF main_pc \in {"rindex", "lock"} THEN shown - 1 ELSE shown

(* The mapped buffer: the pictures after Left, as many as pictq_size says. *)
RingBuffer == [k \in 1 .. pictq_size |-> pic[Wrap(FirstSlot + k - 1)]]

BufferIs ==
  /\ RingBuffer = [k \in 1 .. pictq_size |-> Left + k]
  /\ Left \in Int /\ pictq_size \in Nat

(* What the slots hold is what the counter and the last shown picture say. *)
LEMMA RingBufferIs == IInv /\ OldSlot => BufferIs
<1> SUFFICES ASSUME IInv, OldSlot PROVE BufferIs
  OBVIOUS
<1> USE PictureQueueAssumption
<1>1. Left \in Int /\ pictq_size \in Nat /\ pictq_size <= VIDEO_PICTURE_QUEUE_SIZE
  BY DEF IInv, TypeOK, Left
<1>2. ASSUME NEW k \in 1 .. pictq_size
      PROVE  pic[Wrap(FirstSlot + k - 1)] = Left + k
  <2>1. CASE main_pc # "lock"
    <3>1. /\ Wrap(FirstSlot + k - 1) \in Slots
          /\ Pos(Wrap(FirstSlot + k - 1)) = k - 1
      BY <1>1, <2>1 DEF IInv, TypeOK, Slots, Wrap, FirstSlot, Pos
    <3>2. k - 1 < Used /\ Last = Left
      BY <1>1, <2>1 DEF IInv, TypeOK, Used, Last, Left
    <3>3. pic[Wrap(FirstSlot + k - 1)] = Last + (k - 1) + 1
      BY <3>1, <3>2 DEF IInv, ContentInv
    <3> QED BY <1>1, <3>2, <3>3
  <2>2. CASE main_pc = "lock" /\ k = 1
    <3>1. Wrap(FirstSlot + k - 1) = FirstSlot
      BY <2>2 DEF IInv, TypeOK, Slots, Wrap, FirstSlot
    <3> QED BY <2>2, <3>1 DEF OldSlot, Left, IInv, TypeOK
  <2>3. CASE main_pc = "lock" /\ k # 1
    <3>1. /\ Wrap(FirstSlot + k - 1) \in Slots
          /\ Pos(Wrap(FirstSlot + k - 1)) = k - 2
      BY <1>1, <2>3 DEF IInv, TypeOK, Slots, Wrap, FirstSlot, Pos
    <3>2. k - 2 < Used /\ Last = Left + 1
      BY <1>1, <2>3 DEF IInv, TypeOK, Used, Last, Left
    <3>3. pic[Wrap(FirstSlot + k - 1)] = Last + (k - 2) + 1
      BY <3>1, <3>2 DEF IInv, ContentInv
    <3> QED BY <1>1, <3>2, <3>3
  <2> QED BY <2>1, <2>2, <2>3
<1> QED BY <1>1, <1>2 DEF RingBuffer, BufferIs

(* The tail of a run of numbers is the run from the next one on. *)
LEMMA TailOfRange ==
  ASSUME NEW n \in Nat, n > 0, NEW a \in Int
  PROVE  /\ Tail([k \in 1 .. n |-> a + k]) = [k \in 1 .. n - 1 |-> (a + 1) + k]
         /\ [k \in 1 .. n |-> a + k] # <<>>
<1> DEFINE s == [k \in 1 .. n |-> a + k]
<1>1. s \in Seq(Int) /\ Len(s) = n
  OBVIOUS
<1>2. s # <<>>
  BY <1>1
<1>3. Tail(s) = [k \in 1 .. n - 1 |-> s[k + 1]]
  BY <1>1, <1>2
<1>4. \A k \in 1 .. n - 1 : s[k + 1] = (a + 1) + k
  OBVIOUS
<1> QED BY <1>2, <1>3, <1>4

(* Every step of the ring is a step of the buffer or leaves it alone. *)
LEMMA StepRefines ==
  IInv /\ BufferIs /\ BufferIs' /\ [Next]_vars
    => Buffer!Next \/ RingBuffer' = RingBuffer
<1> SUFFICES ASSUME IInv, BufferIs, BufferIs', [Next]_vars
             PROVE  Buffer!Next \/ RingBuffer' = RingBuffer
  OBVIOUS
<1>1. /\ RingBuffer = [k \in 1 .. pictq_size |-> Left + k]
      /\ Left \in Int /\ pictq_size \in Nat
  BY DEF BufferIs
<1>2. /\ RingBuffer' = [k \in 1 .. pictq_size' |-> Left' + k]
      /\ Left' \in Int /\ pictq_size' \in Nat
  BY DEF BufferIs
<1>3. CASE Publish
  <2>1. pictq_size' = pictq_size + 1 /\ Left' = Left
    BY <1>3 DEF Publish, DecodeUnchanged, Left
  <2>2. /\ pictq_size < VIDEO_PICTURE_QUEUE_SIZE
        /\ Left + pictq_size + 1 \in 1 .. MaxPictures
    BY <1>3, PictureQueueAssumption
    DEF Publish, IInv, TypeOK, RoomInv, FrameInv, Used, Last, Left
  <2>3. PICK x \in 1 .. MaxPictures : x = Left + pictq_size + 1
    BY <2>2
  <2>4. RingBuffer' = Append(RingBuffer, x) /\ Len(RingBuffer) = pictq_size
    BY <1>1, <1>2, <2>1, <2>3
  <2>5. Buffer!Enter(x)
    BY <2>2, <2>4 DEF Buffer!Enter, RingBuffer
  <2> QED BY <2>5 DEF Buffer!Next
<1>4. CASE Release
  <2>1. pictq_size' = pictq_size - 1 /\ Left' = Left + 1 /\ pictq_size > 0
    BY <1>4 DEF Release, MainUnchanged, Left, IInv, TypeOK, RoomInv
  <2>2. RingBuffer' = Tail(RingBuffer) /\ RingBuffer # <<>>
    <3>1. RingBuffer' = [k \in 1 .. pictq_size - 1 |-> (Left + 1) + k]
      BY ONLY <1>2, <2>1
    <3>2. /\ Tail([k \in 1 .. pictq_size |-> Left + k])
               = [k \in 1 .. pictq_size - 1 |-> (Left + 1) + k]
          /\ [k \in 1 .. pictq_size |-> Left + k] # <<>>
      BY ONLY <1>1, <2>1, TailOfRange
    <3> QED BY ONLY <1>1, <3>1, <3>2
  <2>3. Buffer!Leave
    BY <2>2 DEF Buffer!Leave, RingBuffer
  <2> QED BY <2>3 DEF Buffer!Next
<1>5. CASE pictq_size' = pictq_size /\ Left' = Left
  BY <1>1, <1>2, <1>5
<1>6. Publish \/ Release \/ (pictq_size' = pictq_size /\ Left' = Left)
  <2>1. CASE VideoDisplay
    BY <2>1, ShowsNext DEF VideoDisplay, Left, IInv, TypeOK
  <2>2. CASE ~VideoDisplay
    BY <2>2 DEF Next, vars, Left, queue_picture, video_refresh_timer,
       DecodeUnchanged, MainUnchanged, DecodeFrame, QueueLock, QueueTest,
       SpuriousWakeup, QueueRoom, AllocFree, AllocNew, FillStart, FillDone,
       AdvanceWindex, RefreshTest, AdvanceRindex, SignalRoom, Quit
  <2> QED BY <2>1, <2>2
<1> QED BY <1>3, <1>4, <1>5, <1>6

(* Refinement: the ring, its two indices and its counter implement a       *)
(* bounded fifo of pictures.                                               *)
THEOREM ImplementsBuffer == Spec => BufferSpec
<1>1. Init => Buffer!Init
  BY DEF Init, Buffer!Init
<1>2. IInv /\ BufferIs /\ BufferIs' /\ [Next]_vars
        => [Buffer!Next]_([k \in 1 .. pictq_size |-> pic[Wrap(FirstSlot + k - 1)]])
  BY StepRefines DEF RingBuffer
<1>3. Spec => Buffer!Init
            /\ [][Buffer!Next]_([k \in 1 .. pictq_size |-> pic[Wrap(FirstSlot + k - 1)]])
  BY <1>1, <1>2, Invariant, OldSlotKept, RingBufferIs, PTL DEF Spec
<1> QED BY <1>3, PTL DEF BufferSpec, Buffer!Spec
=============================================================================
