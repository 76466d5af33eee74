---------------------------- MODULE PictureQueue ----------------------------
(***************************************************************************)
(* The decoded picture queue of coding-279/player/player6.c: the ring      *)
(* pictq[VIDEO_PICTURE_QUEUE_SIZE] between decode_video_thread, which      *)
(* fills slots in queue_picture (lines 533-617), and the main thread,      *)
(* which shows them in video_refresh_timer and video_display (419-531).    *)
(*                                                                         *)
(* pictq_mutex protects pictq_size only.  The slots, pictq_rindex and      *)
(* pictq_windex are used without it, and video_refresh_timer reads even    *)
(* pictq_size without it (line 473): the two threads must be kept apart by *)
(* the counter alone.  Every access to shared state is a step.             *)
(*                                                                         *)
(* Pictures are numbered in decoding order, from 1; 0 is a slot whose      *)
(* pixels are not completely written.                                      *)
(***************************************************************************)
EXTENDS Integers, Sequences

CONSTANTS
  VIDEO_PICTURE_QUEUE_SIZE,  \* line 33
  MaxPictures,               \* bound: frames the decoder produces
  Dims,                      \* the picture sizes the stream may switch between
  NULL                       \* no bmp

ASSUME PictureQueueAssumption ==
  /\ VIDEO_PICTURE_QUEUE_SIZE \in Nat \ {0}
  /\ MaxPictures \in Nat
  /\ NULL \notin Dims

Slots == 0 .. VIDEO_PICTURE_QUEUE_SIZE - 1

VARIABLES
  bmp,           \* pictq[i].bmp: NULL or the size it was allocated with
  pic,           \* the picture whose pts and pixels are in pictq[i]
  pictq_size,
  pictq_rindex,
  pictq_windex,
  pictq_mutex,   \* who holds it: "main", "decoder" or "none"
  quit,          \* is->quit
  dec_pc,        \* decode_video_thread
  main_pc,       \* main thread
  dim,           \* video_ctx->width and height
  decoded,       \* frames decoded so far; the last one is being queued
  shown          \* auxiliary: the picture of the last completed display

slotVars == <<bmp, pic>>
vars == <<slotVars, pictq_size, pictq_rindex, pictq_windex, pictq_mutex,
          quit, dec_pc, main_pc, dim, decoded, shown>>

Init ==
  /\ bmp = [i \in Slots |-> NULL]
  /\ pic = [i \in Slots |-> 0]
  /\ pictq_size = 0
  /\ pictq_rindex = 0
  /\ pictq_windex = 0
  /\ pictq_mutex = "none"
  /\ quit = FALSE
  /\ dec_pc = "decode"
  /\ main_pc = "events"
  /\ dim \in Dims
  /\ decoded = 0
  /\ shown = 0

(* ++index, wrapped to 0 at the end of the ring: lines 520 and 608. *)
Advance(i) == IF i + 1 = VIDEO_PICTURE_QUEUE_SIZE THEN 0 ELSE i + 1

----------------------------------------------------------------------------
(* decode_video_thread *)

DecodeUnchanged == UNCHANGED <<pictq_rindex, quit, main_pc, shown>>

(* Lines 653-664: a frame is finished; the decoder may have changed the    *)
(* picture size with it.                                                   *)
DecodeFrame ==
  /\ dec_pc = "decode"
  /\ decoded < MaxPictures
  /\ decoded' = decoded + 1
  /\ dim' \in Dims
  /\ dec_pc' = "lock"
  /\ UNCHANGED <<slotVars, pictq_size, pictq_windex, pictq_mutex>>
  /\ DecodeUnchanged

(* Line 572, and the mutex taken again at the end of SDL_CondWait. *)
QueueLock ==
  /\ dec_pc = "lock"
  /\ pictq_mutex = "none"
  /\ pictq_mutex' = "decoder"
  /\ dec_pc' = "test"
  /\ UNCHANGED <<slotVars, pictq_size, pictq_windex, dim, decoded>>
  /\ DecodeUnchanged

(* Mutant: off by one. *)
QueueFullLate == pictq_size > VIDEO_PICTURE_QUEUE_SIZE

(* Lines 573-577. *)
QueueFull == pictq_size >= VIDEO_PICTURE_QUEUE_SIZE
QueueTest ==
  /\ dec_pc = "test"
  /\ pictq_mutex' = "none"
  /\ dec_pc' = IF QueueFull /\ ~quit THEN "wait" ELSE "room"
  /\ UNCHANGED <<slotVars, pictq_size, pictq_windex, dim, decoded>>
  /\ DecodeUnchanged

(* pthread_cond_wait may return without a signal. *)
SpuriousWakeup ==
  /\ dec_pc = "wait"
  /\ dec_pc' = "lock"
  /\ UNCHANGED <<slotVars, pictq_size, pictq_windex, pictq_mutex, dim, decoded>>
  /\ DecodeUnchanged

(* Lines 579-588. *)
QueueRoom ==
  /\ dec_pc = "room"
  /\ dec_pc' = CASE quit -> "exited"
                 [] ~quit /\ bmp[pictq_windex] # dim -> "alloc_free"
                 [] OTHER -> "fill"
  /\ UNCHANGED <<slotVars, pictq_size, pictq_windex, pictq_mutex, dim, decoded>>
  /\ DecodeUnchanged

(* alloc_picture, lines 540-548: the old picture is freed. *)
AllocFree ==
  /\ dec_pc = "alloc_free"
  /\ bmp' = [bmp EXCEPT ![pictq_windex] = NULL]
  /\ pic' = [pic EXCEPT ![pictq_windex] = 0]
  /\ dec_pc' = "alloc_new"
  /\ UNCHANGED <<pictq_size, pictq_windex, pictq_mutex, dim, decoded>>
  /\ DecodeUnchanged

(* alloc_picture, lines 550-563, and the test of quit after it (593-595).  *)
AllocNew ==
  /\ dec_pc = "alloc_new"
  /\ bmp' = [bmp EXCEPT ![pictq_windex] = dim]
  /\ dec_pc' = IF quit THEN "exited" ELSE "fill"
  /\ UNCHANGED <<pic, pictq_size, pictq_windex, pictq_mutex, dim, decoded>>
  /\ DecodeUnchanged

(* Lines 600-605: pts and pixels are written, which is not one step: until *)
(* FillDone the slot holds a mixture.                                      *)
FillStart ==
  /\ dec_pc = "fill"
  /\ pic' = [pic EXCEPT ![pictq_windex] = 0]
  /\ dec_pc' = "filling"
  /\ UNCHANGED <<bmp, pictq_size, pictq_windex, pictq_mutex, dim, decoded>>
  /\ DecodeUnchanged

FillDone ==
  /\ dec_pc = "filling"
  /\ pic' = [pic EXCEPT ![pictq_windex] = decoded]
  /\ dec_pc' = "windex"
  /\ UNCHANGED <<bmp, pictq_size, pictq_windex, pictq_mutex, dim, decoded>>
  /\ DecodeUnchanged

(* Lines 608-610. *)
AdvanceWindex ==
  /\ dec_pc = "windex"
  /\ pictq_windex' = Advance(pictq_windex)
  /\ dec_pc' = "publish"
  /\ UNCHANGED <<slotVars, pictq_size, pictq_mutex, dim, decoded>>
  /\ DecodeUnchanged

(* Lines 612-614, then av_free_packet and the next packet (670). *)
Publish ==
  /\ dec_pc = "publish"
  /\ pictq_mutex = "none"
  /\ pictq_size' = pictq_size + 1
  /\ dec_pc' = "decode"
  /\ UNCHANGED <<slotVars, pictq_windex, pictq_mutex, dim, decoded>>
  /\ DecodeUnchanged

queue_picture ==
  \/ QueueLock \/ QueueTest \/ QueueRoom \/ AllocFree \/ AllocNew
  \/ FillStart \/ FillDone \/ AdvanceWindex \/ Publish

----------------------------------------------------------------------------
(* The main thread.  Refresh events keep coming: every path through        *)
(* video_refresh_timer schedules the next one (modelled in Player).        *)

MainUnchanged ==
  UNCHANGED <<slotVars, pictq_windex, dim, decoded>>

(* Mutant: the empty queue is not noticed. *)
RefreshUntested ==
  /\ main_pc = "events"
  /\ main_pc' = "show"
  /\ UNCHANGED <<pictq_size, pictq_rindex, pictq_mutex, quit, dec_pc, shown>>
  /\ MainUnchanged

(* Line 473, without the mutex. *)
RefreshTest ==
  /\ main_pc = "events"
  /\ main_pc' = IF pictq_size = 0 THEN "events" ELSE "show"
  /\ UNCHANGED <<pictq_size, pictq_rindex, pictq_mutex, quit, dec_pc, shown>>
  /\ MainUnchanged

(* Lines 478-481 and 445-463: pts and pixels of the slot are read. *)
VideoDisplay ==
  /\ main_pc = "show"
  /\ shown' = pic[pictq_rindex]
  /\ main_pc' = "rindex"
  /\ UNCHANGED <<pictq_size, pictq_rindex, pictq_mutex, quit, dec_pc>>
  /\ MainUnchanged

(* Mutant: the read index is not advanced. *)
RindexStays ==
  /\ main_pc = "rindex"
  /\ main_pc' = "lock"
  /\ UNCHANGED <<pictq_size, pictq_rindex, pictq_mutex, quit, dec_pc, shown>>
  /\ MainUnchanged

(* Lines 520-522. *)
AdvanceRindex ==
  /\ main_pc = "rindex"
  /\ pictq_rindex' = Advance(pictq_rindex)
  /\ main_pc' = "lock"
  /\ UNCHANGED <<pictq_size, pictq_mutex, quit, dec_pc, shown>>
  /\ MainUnchanged

(* Lines 523-524. *)
Release ==
  /\ main_pc = "lock"
  /\ pictq_mutex = "none"
  /\ pictq_mutex' = "main"
  /\ pictq_size' = pictq_size - 1
  /\ main_pc' = "signal"
  /\ UNCHANGED <<pictq_rindex, quit, dec_pc, shown>>
  /\ MainUnchanged

(* Mutant: SDL_CondSignal is missing. *)
NoSignalRoom ==
  /\ main_pc = "signal"
  /\ pictq_mutex' = "none"
  /\ main_pc' = "events"
  /\ UNCHANGED <<pictq_size, pictq_rindex, quit, dec_pc, shown>>
  /\ MainUnchanged

(* Lines 525-526: the decoder, the only waiter, is woken. *)
SignalRoom ==
  /\ main_pc = "signal"
  /\ dec_pc' = IF dec_pc = "wait" THEN "lock" ELSE dec_pc
  /\ pictq_mutex' = "none"
  /\ main_pc' = "events"
  /\ UNCHANGED <<pictq_size, pictq_rindex, quit, shown>>
  /\ MainUnchanged

video_refresh_timer ==
  RefreshTest \/ VideoDisplay \/ AdvanceRindex \/ Release \/ SignalRoom

(* main, lines 963-967: the decoder is neither woken nor joined. *)
Quit ==
  /\ main_pc = "events"
  /\ quit' = TRUE
  /\ main_pc' = "exited"
  /\ UNCHANGED <<pictq_size, pictq_rindex, pictq_mutex, dec_pc, shown>>
  /\ MainUnchanged

----------------------------------------------------------------------------

Next ==
  \/ DecodeFrame \/ queue_picture \/ SpuriousWakeup
  \/ video_refresh_timer \/ Quit

Spec == Init /\ [][Next]_vars

(* Both threads keep running, the refresh events keep coming, and a mutex  *)
(* that is free again and again is obtained in the end.  Nobody has to     *)
(* quit, and the wait is never assumed to end by itself.                   *)
Fairness ==
  /\ WF_vars(DecodeFrame)
  /\ SF_vars(queue_picture)
  /\ SF_vars(video_refresh_timer)

FairSpec == Spec /\ Fairness

----------------------------------------------------------------------------
(* Properties *)

(* The types of the ring (struct VideoState, lines 99-102); pictq_size and *)
(* both indices stay inside the array.                                     *)
TypeOK ==
  /\ bmp \in [Slots -> Dims \cup {NULL}]
  /\ pic \in [Slots -> 0 .. MaxPictures]
  /\ pictq_size \in 0 .. VIDEO_PICTURE_QUEUE_SIZE
  /\ pictq_rindex \in Slots
  /\ pictq_windex \in Slots
  /\ pictq_mutex \in {"none", "main", "decoder"}
  /\ quit \in BOOLEAN
  /\ dec_pc \in {"decode", "lock", "test", "wait", "room", "alloc_free",
                 "alloc_new", "fill", "filling", "windex", "publish",
                 "exited"}
  /\ main_pc \in {"events", "show", "rindex", "lock", "signal", "exited"}
  /\ dim \in Dims
  /\ decoded \in 0 .. MaxPictures
  /\ shown \in 0 .. MaxPictures

Writing == dec_pc \in {"alloc_free", "alloc_new", "fill", "filling", "windex"}
Reading == main_pc \in {"show", "rindex"}

(* The decoder never reallocates or fills the slot the main thread is      *)
(* showing, although neither holds a lock on it.                           *)
NoSlotRace == Writing /\ Reading => pictq_windex # pictq_rindex

(* What is shown is complete: the slot has a bmp and a whole picture in    *)
(* it, the one after the last picture shown.  So every decoded picture is  *)
(* shown once and in decoding order.                                       *)
ShownInOrder ==
  main_pc = "show" => /\ bmp[pictq_rindex] # NULL
                      /\ pic[pictq_rindex] = shown + 1

(* The decoder is parked only while the ring is full or the main thread    *)
(* has still to signal: the signal of line 525 cannot be lost.             *)
NoLostWakeup ==
  dec_pc = "wait" /\ ~quit => QueueFull \/ main_pc = "signal"

(* A decoded picture is shown in the end, unless the player quits.         *)
EveryPictureShown ==
  \A n \in 1 .. MaxPictures : (decoded = n) ~> (shown >= n \/ quit)

(* The ring implements a bounded first-in first-out buffer of pictures.  A *)
(* picture enters it at Publish and leaves it at Release; between the two  *)
(* index increments the ring positions are those of pictq_size.            *)
Wrap(i) ==
  IF i >= VIDEO_PICTURE_QUEUE_SIZE THEN i - VIDEO_PICTURE_QUEUE_SIZE ELSE i
FirstSlot ==
  IF main_pc = "lock"
    THEN IF pictq_rindex = 0 THEN VIDEO_PICTURE_QUEUE_SIZE - 1
                             ELSE pictq_rindex - 1
    ELSE pictq_rindex
Buffer == INSTANCE BoundedBuffer WITH
  Capacity <- VIDEO_PICTURE_QUEUE_SIZE,
  Items    <- 1 .. MaxPictures,
  buffer   <- [k \in 1 .. pictq_size |-> pic[Wrap(FirstSlot + k - 1)]]

BufferSpec == Buffer!Spec

=============================================================================
