----------------------------- MODULE YuvPlayer -----------------------------
(***************************************************************************)
(* coding-279/player/yuv_player.c: a timer thread pushes a REFRESH_EVENT   *)
(* every 40 ms, main shows the next frame of a raw file for each.  The     *)
(* file passes through video_buf in blocks that do not hold a whole number *)
(* of frames, and the threads agree on the end through thread_exit and     *)
(* QUIT_EVENT.                                                             *)
(*                                                                         *)
(* A byte is the offset in the file it was read from; pointers are offsets *)
(* in video_buf.                                                           *)
(***************************************************************************)
EXTENDS Integers, Sequences, FiniteSetsExt

CONSTANTS
  BLOCK_SIZE,      \* line 6
  yuv_frame_len,   \* line 64
  FileSizes,       \* bytes of the file
  MaxBacklog,      \* bound: events main may be behind
  MaxUserEvents    \* bound: events that come from the user

ASSUME YuvAssumption ==
  /\ yuv_frame_len \in Nat \ {0}
  /\ BLOCK_SIZE \in Nat
  /\ BLOCK_SIZE >= 2 * yuv_frame_len
  /\ FileSizes \subseteq Nat
  /\ MaxBacklog \in Nat \ {0}
  /\ MaxUserEvents \in Nat

(* What video_buf holds before anything is read into it. *)
Junk == -1

VARIABLES
  main,            \* "start", "event" or "exit"
  timer,           \* where refresh_video_timer is
  thread_exit,
  events,          \* SDL's event queue
  user_events,     \* left
  file_size,
  file_pos,        \* the stream's position
  video_buf,
  video_pos,
  video_end,
  blank_space_len,
  shown,           \* frames shown
  frame            \* the bytes of the last one

bufVars == <<file_pos, video_buf, video_pos, video_end, blank_space_len>>
shownVars == <<shown, frame>>
vars == <<main, timer, thread_exit, events, user_events, file_size,
          bufVars, shownVars>>

Init ==
  /\ main = "start"
  /\ timer = "none"
  /\ thread_exit = 0
  /\ events = <<>>
  /\ user_events = MaxUserEvents
  /\ file_size \in FileSizes
  /\ file_pos = 0
  /\ video_buf = [i \in 0 .. BLOCK_SIZE - 1 |-> Junk]
  /\ video_pos = 0
  /\ video_end = 0
  /\ blank_space_len = BLOCK_SIZE
  /\ shown = 0
  /\ frame = <<>>

-----------------------------------------------------------------------------

(* fread(at, 1, space, video_fd) on a buffer, as used in lines 104 and 144. *)
ReadLen(space) == Min({space, file_size - file_pos})
Filled(buf, at, n) ==
  [i \in DOMAIN buf |-> IF i \in at .. at + n - 1 THEN file_pos + i - at ELSE buf[i]]

(* Lines 67-107: SDL, the file or the first read fails. *)
StartFails ==
  /\ main = "start"
  /\ main' = "exit"
  /\ UNCHANGED <<timer, thread_exit, events, user_events, file_size,
                 bufVars, shownVars>>

(* Lines 103-117. *)
Start ==
  /\ main = "start"
  /\ ReadLen(BLOCK_SIZE) > 0
  /\ LET n == ReadLen(BLOCK_SIZE)
     IN  /\ video_buf' = Filled(video_buf, 0, n)
         /\ file_pos' = file_pos + n
         /\ video_end' = n
         /\ blank_space_len' = BLOCK_SIZE - n
  /\ timer' = "start"
  /\ main' = "event"
  /\ UNCHANGED <<thread_exit, events, user_events, file_size, video_pos,
                 shownVars>>

(* Mutant: what remains is not copied when there is no space behind it. *)
RotatedDropped ==
  IF video_end = BLOCK_SIZE
  THEN [buf |-> video_buf, pos |-> 0, end |-> 0, blank |-> BLOCK_SIZE]
  ELSE [buf |-> video_buf, pos |-> video_pos, end |-> video_end,
        blank |-> blank_space_len]

(* Mutant: the space is not reduced by what was moved. *)
RotatedStaleBlank ==
  LET remain_len == video_end - video_pos
  IN  IF blank_space_len = 0
      THEN [buf |-> [i \in DOMAIN video_buf |->
                       IF i < remain_len THEN video_buf[video_pos + i]
                                         ELSE video_buf[i]],
            pos |-> 0, end |-> remain_len, blank |-> BLOCK_SIZE]
      ELSE [buf |-> video_buf, pos |-> video_pos, end |-> video_end,
            blank |-> blank_space_len]

(* Lines 125-141: room is made for the next read, by moving what remains   *)
(* to the head of the buffer or by starting at the head again.             *)
Rotated ==
  LET remain_len == video_end - video_pos
      moved == [i \in DOMAIN video_buf |->
                  IF i < remain_len THEN video_buf[video_pos + i] ELSE video_buf[i]]
  IN  CASE remain_len # 0 /\ blank_space_len = 0 ->
             [buf |-> moved, pos |-> 0, end |-> remain_len,
              blank |-> BLOCK_SIZE - remain_len]
        [] remain_len = 0 /\ video_end = BLOCK_SIZE ->
             [buf |-> video_buf, pos |-> 0, end |-> 0, blank |-> BLOCK_SIZE]
        [] OTHER ->
             [buf |-> video_buf, pos |-> video_pos, end |-> video_end,
              blank |-> blank_space_len]

(* Line 123. *)
NotEnough == video_pos + yuv_frame_len > video_end

(* Lines 156-169: the frame at pos is shown and passed. *)
Render(buf, pos) ==
  /\ shown' = shown + 1
  /\ frame' = [i \in 1 .. yuv_frame_len |-> buf[pos + i - 1]]
  /\ video_pos' = pos + yuv_frame_len

(* An event is taken from the queue (line 120). *)
TakeEvent(type) ==
  /\ main = "event"
  /\ events # <<>>
  /\ Head(events) = type
  /\ events' = Tail(events)
  /\ UNCHANGED <<timer, user_events, file_size>>

(* Lines 121-170 with a whole frame in the buffer. *)
RefreshNext ==
  /\ TakeEvent("REFRESH_EVENT")
  /\ ~NotEnough
  /\ Render(video_buf, video_pos)
  /\ UNCHANGED <<main, thread_exit, file_pos, video_buf, video_end,
                 blank_space_len>>

(* Lines 121-170 when more has to be read first. *)
RefreshRead ==
  /\ TakeEvent("REFRESH_EVENT")
  /\ NotEnough
  /\ LET r == Rotated
         n == ReadLen(r.blank)
     IN  /\ n > 0
         /\ video_buf' = Filled(r.buf, r.end, n)
         /\ file_pos' = file_pos + n
         /\ video_end' = r.end + n
         /\ blank_space_len' = r.blank - n
         /\ Render(video_buf', r.pos)
  /\ UNCHANGED <<main, thread_exit>>

(* Mutant: the end of the file is not told to the timer thread. *)
RefreshEofIgnored ==
  /\ TakeEvent("REFRESH_EVENT")
  /\ NotEnough
  /\ ReadLen(Rotated.blank) = 0
  /\ UNCHANGED <<main, thread_exit, bufVars, shownVars>>

(* Mutant: without the `continue` what is in the buffer is shown. *)
RefreshEofShows ==
  /\ TakeEvent("REFRESH_EVENT")
  /\ NotEnough
  /\ ReadLen(Rotated.blank) = 0
  /\ Render(video_buf, 0)
  /\ thread_exit' = 1
  /\ UNCHANGED <<main, file_pos, video_buf, video_end, blank_space_len>>

(* Lines 144-148: the end of the file. *)
RefreshEof ==
  /\ TakeEvent("REFRESH_EVENT")
  /\ NotEnough
  /\ LET r == Rotated
     IN  /\ ReadLen(r.blank) = 0
         /\ video_buf' = r.buf
         /\ video_pos' = r.pos
         /\ video_end' = r.end
         /\ blank_space_len' = r.blank
  /\ thread_exit' = 1
  /\ UNCHANGED <<main, file_pos, shownVars>>

(* Lines 171-173. *)
WindowEvent ==
  /\ TakeEvent("SDL_WINDOWEVENT")
  /\ UNCHANGED <<main, thread_exit, bufVars, shownVars>>

(* Lines 174-175. *)
QuitAsked ==
  /\ TakeEvent("SDL_QUIT")
  /\ thread_exit' = 1
  /\ UNCHANGED <<main, bufVars, shownVars>>

(* Lines 176-190. *)
QuitEvent ==
  /\ TakeEvent("QUIT_EVENT")
  /\ main' = "exit"
  /\ UNCHANGED <<thread_exit, bufVars, shownVars>>

Main ==
  \/ StartFails
  \/ Start
  \/ RefreshNext
  \/ RefreshRead
  \/ RefreshEof
  \/ WindowEvent
  \/ QuitAsked
  \/ QuitEvent

-----------------------------------------------------------------------------

(* Line 16: thread_exit is cleared when the thread gets to run. *)
TimerStart ==
  /\ timer = "start"
  /\ thread_exit' = 0
  /\ timer' = "loop"
  /\ UNCHANGED <<main, events, user_events, file_size, bufVars, shownVars>>

(* Line 18: the loop's test. *)
TimerLoop ==
  /\ timer = "loop"
  /\ timer' = IF thread_exit = 0 THEN "push" ELSE "done"
  /\ UNCHANGED <<main, thread_exit, events, user_events, file_size,
                 bufVars, shownVars>>

(* Lines 19-22: the event and the delay. *)
TimerPush ==
  /\ timer = "push"
  /\ Len(events) < MaxBacklog
  /\ events' = Append(events, "REFRESH_EVENT")
  /\ timer' = "loop"
  /\ UNCHANGED <<main, thread_exit, user_events, file_size, bufVars, shownVars>>

(* Lines 25-32. *)
TimerDone ==
  /\ timer = "done"
  /\ thread_exit' = 0
  /\ events' = Append(events, "QUIT_EVENT")
  /\ timer' = "returned"
  /\ UNCHANGED <<main, user_events, file_size, bufVars, shownVars>>

refresh_video_timer == TimerStart \/ TimerLoop \/ TimerPush \/ TimerDone

(* External: the user resizes or closes the window. *)
User ==
  /\ main = "event"
  /\ user_events > 0
  /\ user_events' = user_events - 1
  /\ \E type \in {"SDL_WINDOWEVENT", "SDL_QUIT"} : events' = Append(events, type)
  /\ UNCHANGED <<main, timer, thread_exit, file_size, bufVars, shownVars>>

(* main has returned. *)
Done == main = "exit" /\ UNCHANGED vars

Next == Main \/ (main # "exit" /\ refresh_video_timer) \/ User \/ Done

(* The operating system runs both threads. *)
Spec == Init /\ [][Next]_vars /\ WF_vars(Main) /\ WF_vars(refresh_video_timer)

-----------------------------------------------------------------------------

WholeFrames == file_size \div yuv_frame_len

(* Across every refill of the buffer, frame k on the screen is exactly     *)
(* frame k of the file (lines 123-169): no byte is lost, repeated or taken *)
(* from the block before.                                                  *)
FramesExact ==
  shown \in 1 .. WholeFrames =>
    frame = [i \in 1 .. yuv_frame_len |-> (shown - 1) * yuv_frame_len + i - 1]

(* At most the incomplete frame at the end of the file is shown beyond the *)
(* whole ones: once the last byte is read nothing is shown again.          *)
NothingBeyondEnd ==
  shown * yuv_frame_len < file_size + yuv_frame_len

(* The lengths of lines 126-152, which are unsigned, never pass below zero *)
(* where they are used, and texture and memcpy read inside video_buf.      *)
BufferSafe ==
  /\ blank_space_len \in 0 .. BLOCK_SIZE - video_end
  /\ video_pos > video_end => blank_space_len > 0 /\ file_pos = file_size
  /\ video_pos <= BLOCK_SIZE

(* main comes back: the file ends or the user quits, and QUIT_EVENT        *)
(* (lines 28-30) is sent and handled.                                      *)
PlayerExits == <>(main = "exit")
=============================================================================
