---------------------------- MODULE PlayerProofs ----------------------------
(***************************************************************************)
(* Proofs about Player, for all files, queue limits and interleavings of   *)
(* its five threads.                                                       *)
(*                                                                         *)
(* The properties of Player are not inductive.  The invariants below say   *)
(* what each thread may rely on while another one runs; each is inductive  *)
(* together with the ones before it:                                       *)
(*                                                                         *)
(*   TypeOK      the ranges of the variables                               *)
(*   SetupInv    what demux_thread has set up when the other threads start *)
(*   ChainInv    where the one refresh is                                  *)
(*   QueueInv    what the unlocked test of the queue sizes leaves true     *)
(*   OwnerInv    where each packet is, and the order of the packets        *)
(*   PictureInv  the order of the pictures, and of the one on the screen   *)
(*   RoomInv     the room queue_picture has seen is there when it fills it *)
(***************************************************************************)
EXTENDS Player, TLAPS, SequenceTheorems, FiniteSetTheorems

SetupPcs == {"open", "open_audio", "open_audio_codec", "unpause", "open_video",
             "start_decoder", "check_streams"}
DecodePcs == {"decode", "room", "room_wait", "fill"}

FlagsOK ==
  /\ quit \in BOOLEAN /\ texture \in BOOLEAN
  /\ audio_st \in BOOLEAN /\ video_st \in BOOLEAN /\ screen \in BOOLEAN

PlacesOK ==
  /\ device \in {"none", "paused", "playing", "shutdown"}
  /\ mixer_lock \in {"none", "audio"}
  /\ main_pc \in {"events", "refresh", "display", "release", "sdl_quit",
                  "join_audio", "audio_closed", "exited"}
  /\ demux_pc \in SetupPcs \cup {"loop", "read", "all_done", "fail", "exited"}
  /\ dec_pc \in {"none", "exited"} \cup GetPcs \cup DecodePcs
  /\ audio_pc \in {"none", "run", "exited", "callback"} \cup GetPcs

QueuesOK ==
  /\ audioq \in Seq(Nat) /\ videoq \in Seq(Nat) /\ pictq \in Seq(Nat)
  /\ events \in Seq({"refresh", "quit"})
  /\ vpkt \in Nat /\ apkt \in Nat /\ shown \in Nat
  /\ freed \in SUBSET Nat /\ lost \in SUBSET Nat

CountsOK ==
  /\ file \in Files
  /\ nread \in 0 .. Len(file.packets)
  /\ timers \in Nat
  /\ apkt_frames \in 0 .. FRAMES_PER_PACKET
  /\ audio_buf \in Nat
  /\ len \in 0 .. CALLBACK_LEN

TypeOK == FlagsOK /\ PlacesOK /\ QueuesOK /\ CountsOK

(* Everything a picture needs is set before the first packet is read, and  *)
(* the device plays only after the audio fields are set.                   *)
Ready == audio_st /\ video_st /\ screen

SetupInv ==
  /\ demux_pc = "unpause" \/ device = "playing" => audio_st
  /\ CallbackReady
  /\ demux_pc \in {"loop", "read"} => Ready
  /\ videoq # <<>> \/ pictq # <<>> \/ dec_pc \in DecodePcs => Ready
  /\ main_pc \in {"display", "release"} => pictq # <<>>
  /\ main_pc = "release" => texture

(* The one refresh is an armed timer, an event in the queue or the event   *)
(* main handles.                                                           *)
RefreshAt == {i \in 1 .. Len(events) : events[i] = "refresh"}

ChainInv ==
  main_pc \in {"events", "refresh", "display", "release"} =>
    \/ timers = 1 /\ main_pc # "refresh" /\ RefreshAt = {}
    \/ timers = 0 /\ main_pc # "refresh" /\ \E i \in RefreshAt : RefreshAt = {i}
    \/ timers = 0 /\ main_pc = "refresh" /\ RefreshAt = {}

(* Only demux_thread appends, so what it tested still holds when it reads. *)
QueueInv ==
  /\ QueueBound
  /\ demux_pc = "read" =>
       Len(audioq) <= MAX_AUDIOQ_SIZE /\ Len(videoq) <= MAX_VIDEOQ_SIZE

(* The packets of one kind go from the file to their queue q, from there   *)
(* to the thread that holds one, pkt, and then they are freed: F < pkt < q. *)
(* L are the lost ones and n is the last one read.                         *)
Increasing(q) == \A i, j \in 1 .. Len(q) : i < j => q[i] < q[j]

Lane(packets, kind, q, pkt, n, F, L) ==
  /\ Increasing(q)
  /\ \A x \in ToSet(q) : x \in 1 .. n /\ packets[x] = kind /\ x \notin L /\ pkt < x
  /\ pkt # 0 => pkt \in 1 .. n /\ packets[pkt] = kind /\ pkt \notin L
  /\ \A p \in F : packets[p] = kind =>
       (\A x \in ToSet(q) : p < x) /\ (pkt # 0 => p < pkt)

AudioLane == Lane(file.packets, "audio", audioq, apkt, nread, freed, lost)
VideoLane == Lane(file.packets, "video", videoq, vpkt, nread, freed, lost)

Covered ==
  /\ ToSet(audioq) \cup ToSet(videoq) \cup ({vpkt, apkt} \ {0})
       \cup freed \cup lost = 1 .. nread
  /\ freed \cap lost = {}

(* A thread that asks for a packet holds none. *)
HeldInv ==
  /\ dec_pc \in {"none"} \cup GetPcs => vpkt = 0
  /\ dec_pc \in DecodePcs => vpkt # 0
  /\ audio_pc \in GetPcs => apkt = 0
  /\ demux_pc \in SetupPcs => nread = 0

OwnerInv == AudioLane /\ VideoLane /\ Covered /\ HeldInv

(* Pictures are of freed video packets, in file order; the one shown last  *)
(* is before all of them, or is the first one until its slot is released.  *)
PictureInv ==
  /\ Increasing(pictq)
  /\ \A x \in ToSet(pictq) :
       /\ x \in freed /\ file.packets[x] = "video"
       /\ IF main_pc = "release" THEN shown <= x ELSE shown < x
  /\ shown # 0 => shown \in freed /\ file.packets[shown] = "video"

-----------------------------------------------------------------------------
(* What the threads leave alone *)

LEMMA MainFrame ==
  ASSUME main
  PROVE  mainKeeps
BY DEF main, WaitEvent, RefreshLater, RefreshSchedule, video_display,
       ReleasePicture, CloseAudioLock, CloseAudioJoin, MainReturns

LEMMA DemuxFrame ==
  ASSUME demux_thread
  PROVE  demuxKeeps
BY DEF demux_thread, stream_component_open, demuxMovesOnly,
       NoAudio, OpenAudioDevice, AudioCodecFails, SetAudioFields,
       UnpauseAudio, NoVideo, SetVideoFields, StartDecoder,
       OpenFile, CheckStreams, LoopTest, ReadEnds, ReadPacket, AllDone, PushQuit

LEMMA DecoderFrame ==
  ASSUME decode_video_thread \/ VideoSpurious
  PROVE  decKeeps
BY DEF decode_video_thread, VideoGet, VideoLook, DecodeVideo, PictureRoom,
       AllocThenQuit, QueuePicture, VideoSpurious

LEMMA AudioFrame ==
  ASSUME AudioRun \/ audio_callback \/ AudioSpurious
  PROVE  audioKeeps
BY DEF audio_callback, AudioRun, MixAudio, CallbackReturns, DecodeAudio,
       FreeAudioPacket, AudioGet, AudioLook, AudioSpurious

-----------------------------------------------------------------------------
(* Facts about the constants and about sequences *)

LEMMA Limits ==
  /\ MAX_AUDIOQ_SIZE \in Nat /\ MAX_VIDEOQ_SIZE \in Nat
  /\ FRAMES_PER_PACKET \in Nat \ {0} /\ FRAME_LEN \in Nat \ {0}
  /\ CALLBACK_LEN \in Nat \ {0}
  /\ \A f \in Files : Len(f.packets) \in Nat
<1>1. \A f \in Files : Len(f.packets) \in Nat
  <2> TAKE f \in Files
  <2>1. f.packets \in Seq(f.streams \cup {"other"})
    BY PlayerAssumption
  <2> QED
    BY <2>1
<1> QED
  BY <1>1, PlayerAssumption

(* The queues grow at the end and shrink at the front. *)
LEMMA SeqSteps ==
  ASSUME NEW S, NEW s \in Seq(S)
  PROVE  /\ \A e \in S : Append(s, e) \in Seq(S) /\ Append(s, e) # <<>>
         /\ s # <<>> => Tail(s) \in Seq(S) /\ Head(s) \in S
<1>1. ASSUME NEW e \in S PROVE Append(s, e) \in Seq(S) /\ Append(s, e) # <<>>
  BY AppendProperties
<1>2. ASSUME s # <<>> PROVE Tail(s) \in Seq(S) /\ Head(s) \in S
  BY <1>2, HeadTailProperties
<1> QED
  BY <1>1, <1>2

-----------------------------------------------------------------------------
(* Type correctness *)

LEMMA InitTypeOK == Init => TypeOK
<1> SUFFICES ASSUME Init PROVE TypeOK
  OBVIOUS
<1>1. FlagsOK
  BY DEF Init, FlagsOK
<1>2. PlacesOK
  BY DEF Init, PlacesOK, SetupPcs
<1>3. QueuesOK
  BY DEF Init, QueuesOK
<1>4. CountsOK
  BY Limits DEF Init, CountsOK
<1> QED
  BY <1>1, <1>2, <1>3, <1>4 DEF TypeOK

LEMMA StepFlags == FlagsOK /\ [Next]_vars => FlagsOK'
<1> SUFFICES ASSUME FlagsOK, [Next]_vars PROVE FlagsOK'
  OBVIOUS
<1> USE DEF FlagsOK, setupVars, mainVars
<1>1. CASE sdl_refresh_timer_cb \/ UserQuit
  BY <1>1 DEF sdl_refresh_timer_cb, UserQuit
<1>2. CASE main
  BY <1>2, MainFrame DEF mainKeeps, main, WaitEvent, RefreshLater,
     RefreshSchedule, video_display, ReleasePicture, CloseAudioLock,
     CloseAudioJoin, MainReturns
<1>3. CASE demux_thread
  <2>1. CASE stream_component_open
    BY <1>3, <2>1, DemuxFrame DEF demuxKeeps, stream_component_open,
       demuxMovesOnly, NoAudio, OpenAudioDevice, AudioCodecFails,
       SetAudioFields, UnpauseAudio, NoVideo, SetVideoFields, StartDecoder
  <2>2. CASE CheckStreams
    BY <1>3, <2>2, DemuxFrame DEF demuxKeeps, CheckStreams
  <2>3. CASE OpenFile \/ LoopTest \/ ReadEnds \/ ReadPacket \/ AllDone \/ PushQuit
    BY <1>3, <2>3, DemuxFrame DEF demuxKeeps, demuxMovesOnly, OpenFile,
       LoopTest, ReadEnds, ReadPacket, AllDone, PushQuit
  <2> QED
    BY <1>3, <2>1, <2>2, <2>3 DEF demux_thread
<1>4. CASE decode_video_thread \/ VideoSpurious
  BY <1>4, DecoderFrame DEF decKeeps
<1>5. CASE AudioRun \/ audio_callback \/ AudioSpurious
  BY <1>5, AudioFrame DEF audioKeeps
<1>6. CASE UNCHANGED vars
  BY <1>6 DEF vars
<1> QED
  BY <1>1, <1>2, <1>3, <1>4, <1>5, <1>6 DEF Next

LEMMA StepPlaces == PlacesOK /\ [Next]_vars => PlacesOK'
<1> SUFFICES ASSUME PlacesOK, [Next]_vars PROVE PlacesOK'
  OBVIOUS
<1> USE DEF PlacesOK, SetupPcs, GetPcs, DecodePcs, setupVars, mainVars, sdlVars,
      decVars, audioVars, demuxVars
<1>1. CASE sdl_refresh_timer_cb \/ UserQuit
  BY <1>1 DEF sdl_refresh_timer_cb, UserQuit
<1>2. CASE main
  BY <1>2, MainFrame DEF mainKeeps, main, WaitEvent, RefreshLater,
     RefreshSchedule, video_display, ReleasePicture, CloseAudioLock,
     CloseAudioJoin, MainReturns
<1>3. CASE demux_thread
  <2>1. CASE stream_component_open
    BY <1>3, <2>1, DemuxFrame DEF demuxKeeps, stream_component_open,
       demuxMovesOnly, NoAudio, OpenAudioDevice, AudioCodecFails,
       SetAudioFields, UnpauseAudio, NoVideo, SetVideoFields, StartDecoder
  <2>2. CASE CheckStreams \/ ReadPacket
    BY <1>3, <2>2, DemuxFrame DEF demuxKeeps, CheckStreams, ReadPacket, Wake
  <2>3. CASE OpenFile \/ LoopTest \/ ReadEnds \/ AllDone \/ PushQuit
    BY <1>3, <2>3, DemuxFrame DEF demuxKeeps, demuxMovesOnly, OpenFile,
       LoopTest, ReadEnds, AllDone, PushQuit
  <2> QED
    BY <1>3, <2>1, <2>2, <2>3 DEF demux_thread
<1>4. CASE decode_video_thread \/ VideoSpurious
  BY <1>4, DecoderFrame DEF decKeeps, decode_video_thread, VideoGet, VideoLook,
     DecodeVideo, PictureRoom, AllocThenQuit, QueuePicture, VideoSpurious
<1>5. CASE AudioRun \/ audio_callback \/ AudioSpurious
  BY <1>5, AudioFrame DEF audioKeeps, audio_callback, AudioRun, MixAudio,
     CallbackReturns, DecodeAudio, FreeAudioPacket, AudioGet, AudioLook,
     AudioSpurious, Silence
<1>6. CASE UNCHANGED vars
  BY <1>6 DEF vars
<1> QED
  BY <1>1, <1>2, <1>3, <1>4, <1>5, <1>6 DEF Next

LEMMA StepQueues ==
  CountsOK /\ QueuesOK /\ SetupInv /\ [Next]_vars => QueuesOK'
<1> SUFFICES ASSUME CountsOK, QueuesOK, SetupInv, [Next]_vars PROVE QueuesOK'
  OBVIOUS
<1>a. /\ audioq \in Seq(Nat) /\ videoq \in Seq(Nat) /\ pictq \in Seq(Nat)
      /\ events \in Seq({"refresh", "quit"})
      /\ nread \in Nat
  BY Limits DEF QueuesOK, CountsOK
<1>b. <<>> \in Seq(Nat) /\ <<>> \in Seq({"refresh", "quit"})
  OBVIOUS
<1> USE DEF QueuesOK, mainVars, sdlVars, decVars, audioVars, queueVars
<1>1. CASE sdl_refresh_timer_cb \/ UserQuit
  BY <1>1, <1>a, SeqSteps DEF sdl_refresh_timer_cb, UserQuit
<1>2. CASE main
  <2>1. CASE WaitEvent
    BY <1>a, <2>1, SeqSteps DEF WaitEvent, mainKeeps
  <2>2. CASE video_display \/ ReleasePicture
    <3>1. pictq # <<>>
      BY <2>2 DEF video_display, ReleasePicture, SetupInv
    <3>2. Head(pictq) \in Nat /\ Tail(pictq) \in Seq(Nat)
      BY <1>a, <3>1, SeqSteps
    <3> QED
      BY <2>2, <3>2 DEF video_display, ReleasePicture, mainKeeps
  <2>3. CASE RefreshLater \/ RefreshSchedule \/ CloseAudioLock \/ CloseAudioJoin
             \/ MainReturns
    BY <1>b, <2>3 DEF RefreshLater, RefreshSchedule, CloseAudioLock, CloseAudioJoin,
       MainReturns, mainKeeps
  <2> QED
    BY <1>2, <2>1, <2>2, <2>3 DEF main
<1>3. CASE demux_thread
  <2>1. CASE stream_component_open
    BY <1>b, <1>3, <2>1, DemuxFrame DEF demuxKeeps, stream_component_open,
       demuxMovesOnly, NoAudio, OpenAudioDevice, AudioCodecFails,
       SetAudioFields, UnpauseAudio, NoVideo, SetVideoFields, StartDecoder
  <2>2. CASE ReadPacket
    <3>1. /\ Append(audioq, nread + 1) \in Seq(Nat)
          /\ Append(videoq, nread + 1) \in Seq(Nat)
      BY <1>a, SeqSteps
    <3>2. freed' \in SUBSET Nat /\ lost' \in SUBSET Nat
      <4>1. nread' \in Nat
        BY <1>a, <2>2 DEF ReadPacket
      <4>2. /\ freed' = freed \/ freed' = freed \cup {nread'}
            /\ lost' = lost \/ lost' = lost \cup {nread'}
        BY <2>2 DEF ReadPacket
      <4> QED
        BY <4>1, <4>2
    <3>3. audioq' \in Seq(Nat) /\ videoq' \in Seq(Nat)
      BY <1>a, <2>2, <3>1 DEF ReadPacket
    <3> QED
      BY <2>2, <3>2, <3>3 DEF ReadPacket, demuxKeeps
  <2>3. CASE PushQuit
    BY <1>a, <2>3, SeqSteps DEF PushQuit, demuxKeeps
  <2>4. CASE OpenFile \/ CheckStreams \/ LoopTest \/ ReadEnds \/ AllDone
    BY <1>3, <2>4, DemuxFrame DEF demuxKeeps, demuxMovesOnly, OpenFile,
       CheckStreams, LoopTest, ReadEnds, AllDone
  <2> QED
    BY <1>3, <2>1, <2>2, <2>3, <2>4 DEF demux_thread
<1>4. CASE decode_video_thread \/ VideoSpurious
  <2>1. CASE VideoLook
    BY <1>a, <2>1, SeqSteps DEF VideoLook, decKeeps
  <2>2. CASE QueuePicture
    BY <1>a, <2>2, SeqSteps DEF QueuePicture, decKeeps
  <2>3. CASE VideoGet \/ DecodeVideo \/ PictureRoom \/ AllocThenQuit \/ VideoSpurious
    BY <2>3 DEF VideoGet, DecodeVideo, PictureRoom, AllocThenQuit,
       VideoSpurious, decKeeps
  <2> QED
    BY <1>4, <2>1, <2>2, <2>3 DEF decode_video_thread
<1>5. CASE AudioRun \/ audio_callback \/ AudioSpurious
  <2>1. CASE AudioLook
    BY <1>a, <2>1, SeqSteps DEF AudioLook, audioKeeps
  <2>2. CASE FreeAudioPacket
    <3>1. freed' \in SUBSET Nat
      BY <2>2 DEF FreeAudioPacket
    <3> QED
      BY <2>2, <3>1 DEF FreeAudioPacket, audioKeeps
  <2>3. CASE AudioRun \/ MixAudio \/ CallbackReturns \/ DecodeAudio
             \/ AudioGet \/ AudioSpurious
    BY <2>3 DEF AudioRun, MixAudio, CallbackReturns, DecodeAudio,
       AudioGet, AudioSpurious, audioKeeps
  <2> QED
    BY <1>5, <2>1, <2>2, <2>3 DEF audio_callback
<1>6. CASE UNCHANGED vars
  BY <1>6 DEF vars
<1> QED
  BY <1>1, <1>2, <1>3, <1>4, <1>5, <1>6 DEF Next

LEMMA StepCounts == CountsOK /\ [Next]_vars => CountsOK'
<1> SUFFICES ASSUME CountsOK, [Next]_vars PROVE CountsOK'
  OBVIOUS
<1> USE Limits DEF CountsOK, mainVars, sdlVars, decVars, audioVars, queueVars,
      demuxVars
<1>1. CASE sdl_refresh_timer_cb \/ UserQuit
  BY <1>1 DEF sdl_refresh_timer_cb, UserQuit
<1>2. CASE main
  BY <1>2, MainFrame DEF mainKeeps, main, WaitEvent, RefreshLater,
     RefreshSchedule, video_display, ReleasePicture, CloseAudioLock,
     CloseAudioJoin, MainReturns
<1>3. CASE demux_thread
  <2>1. CASE stream_component_open
    BY <1>3, <2>1, DemuxFrame DEF demuxKeeps, stream_component_open,
       demuxMovesOnly, NoAudio, OpenAudioDevice, AudioCodecFails,
       SetAudioFields, UnpauseAudio, NoVideo, SetVideoFields, StartDecoder
  <2>2. CASE ReadPacket
    BY <1>3, <2>2, DemuxFrame DEF demuxKeeps, ReadPacket
  <2>3. CASE OpenFile \/ CheckStreams \/ LoopTest \/ ReadEnds \/ AllDone \/ PushQuit
    BY <1>3, <2>3, DemuxFrame DEF demuxKeeps, demuxMovesOnly, OpenFile,
       CheckStreams, LoopTest, ReadEnds, AllDone, PushQuit
  <2> QED
    BY <1>3, <2>1, <2>2, <2>3 DEF demux_thread
<1>4. CASE decode_video_thread \/ VideoSpurious
  BY <1>4, DecoderFrame DEF decKeeps
<1>5. CASE AudioRun \/ audio_callback \/ AudioSpurious
  <2>1. CASE AudioRun \/ CallbackReturns \/ AudioSpurious
    BY <2>1 DEF AudioRun, CallbackReturns, AudioSpurious, audioKeeps
  <2>2. CASE MixAudio
    BY <2>2 DEF MixAudio, audioKeeps
  <2>3. CASE DecodeAudio
    BY <2>3 DEF DecodeAudio, audioKeeps
  <2>4. CASE FreeAudioPacket \/ AudioGet
    BY <2>4 DEF FreeAudioPacket, AudioGet, Silence, audioKeeps
  <2>5. CASE AudioLook
    BY <2>5 DEF AudioLook, audioKeeps
  <2> QED
    BY <1>5, <2>1, <2>2, <2>3, <2>4, <2>5 DEF audio_callback
<1>6. CASE UNCHANGED vars
  BY <1>6 DEF vars
<1> QED
  BY <1>1, <1>2, <1>3, <1>4, <1>5, <1>6 DEF Next

-----------------------------------------------------------------------------
(* What demux_thread sets up *)

LEMMA InitSetup == Init => SetupInv
BY DEF Init, SetupInv, CallbackReady, GetPcs, DecodePcs

LEMMA StepSetup == TypeOK /\ SetupInv /\ [Next]_vars => SetupInv'
<1> SUFFICES ASSUME TypeOK, SetupInv, [Next]_vars PROVE SetupInv'
  OBVIOUS
<1>a. audioq \in Seq(Nat) /\ videoq \in Seq(Nat) /\ pictq \in Seq(Nat)
  BY DEF TypeOK, QueuesOK
<1> USE DEF SetupInv, CallbackReady, Ready, GetPcs, DecodePcs, setupVars,
      mainVars, sdlVars, decVars, audioVars, queueVars, demuxVars
<1>1. CASE sdl_refresh_timer_cb \/ UserQuit
  BY <1>1 DEF sdl_refresh_timer_cb, UserQuit
<1>2. CASE main
  <2>1. CASE WaitEvent \/ RefreshLater \/ RefreshSchedule
    BY <2>1 DEF WaitEvent, RefreshLater, RefreshSchedule, mainKeeps
  <2>2. CASE video_display
    BY <2>2 DEF video_display, mainKeeps
  <2>3. CASE ReleasePicture
    BY <2>3 DEF ReleasePicture, mainKeeps
  <2>4. CASE CloseAudioLock \/ CloseAudioJoin \/ MainReturns
    BY <2>4 DEF CloseAudioLock, CloseAudioJoin, MainReturns, mainKeeps
  <2> QED
    BY <1>2, <2>1, <2>2, <2>3, <2>4 DEF main
<1>3. CASE demux_thread
  <2>1. CASE NoAudio \/ AudioCodecFails \/ NoVideo \/ OpenFile \/ LoopTest
             \/ ReadEnds \/ AllDone
    BY <2>1 DEF NoAudio, AudioCodecFails, NoVideo, OpenFile, LoopTest,
       ReadEnds, AllDone, demuxMovesOnly, demuxKeeps
  <2>2. CASE OpenAudioDevice \/ UnpauseAudio \/ PushQuit
    BY <2>2 DEF OpenAudioDevice, UnpauseAudio, PushQuit, demuxKeeps
  <2>3. CASE SetAudioFields \/ SetVideoFields
    BY <2>3 DEF SetAudioFields, SetVideoFields, demuxKeeps
  <2>4. CASE StartDecoder
    BY <2>4 DEF StartDecoder, demuxKeeps
  <2>5. CASE CheckStreams
    BY <2>5 DEF CheckStreams, demuxKeeps
  <2>6. CASE ReadPacket
    BY <2>6 DEF ReadPacket, Wake, demuxKeeps
  <2> QED
    BY <1>3, <2>1, <2>2, <2>3, <2>4, <2>5, <2>6
       DEF demux_thread, stream_component_open
<1>4. CASE decode_video_thread \/ VideoSpurious
  <2>1. CASE VideoLook
    BY <2>1 DEF VideoLook, decKeeps
  <2>2. CASE QueuePicture
    BY <1>a, <2>2, SeqSteps DEF QueuePicture, decKeeps
  <2>3. CASE VideoGet \/ DecodeVideo \/ PictureRoom \/ AllocThenQuit \/ VideoSpurious
    BY <2>3 DEF VideoGet, DecodeVideo, PictureRoom, AllocThenQuit,
       VideoSpurious, decKeeps
  <2> QED
    BY <1>4, <2>1, <2>2, <2>3 DEF decode_video_thread
<1>5. CASE AudioRun \/ audio_callback \/ AudioSpurious
  BY <1>5, AudioFrame DEF audioKeeps, audio_callback, AudioRun, MixAudio,
     CallbackReturns, DecodeAudio, FreeAudioPacket, AudioGet, AudioLook,
     AudioSpurious, Silence
<1>6. CASE UNCHANGED vars
  BY <1>6 DEF vars
<1> QED
  BY <1>1, <1>2, <1>3, <1>4, <1>5, <1>6 DEF Next

(* The first two invariants need each other. *)
LEMMA SetupDone == Spec => [](TypeOK /\ SetupInv)
<1>1. Init => TypeOK /\ SetupInv
  BY InitTypeOK, InitSetup
<1>2. TypeOK /\ SetupInv /\ [Next]_vars => TypeOK' /\ SetupInv'
  BY StepFlags, StepPlaces, StepQueues, StepCounts, StepSetup DEF TypeOK
<1> QED
  BY <1>1, <1>2, PTL DEF Spec

(* The variables have their types: no thread is ever between two steps     *)
(* that the program does not have, and no counter leaves its range.        *)
THEOREM TypeCorrect == Spec => []TypeOK
BY SetupDone, PTL

(* The audio callback never runs before stream_component_open has set the  *)
(* fields it uses.                                                         *)
THEOREM CallbackReadyHolds == Spec => []CallbackReady
<1>1. SetupInv => CallbackReady
  BY DEF SetupInv
<1> QED
  BY <1>1, SetupDone, PTL

(* What main needs to show a picture is set although no lock orders it     *)
(* after the demux thread's assignments.                                   *)
THEOREM DisplayReadyHolds == Spec => []DisplayReady
<1>1. SetupInv => DisplayReady
  BY DEF SetupInv, DisplayReady, Ready
<1> QED
  BY <1>1, SetupDone, PTL

-----------------------------------------------------------------------------
(* The chain of refreshes *)

LEMMA InitChain == Init => ChainInv
BY DEF Init, ChainInv, RefreshAt

(* A new event at the end of the queue. *)
LEMMA RefreshAppend ==
  ASSUME events \in Seq({"refresh", "quit"}),
         NEW e \in {"refresh", "quit"}, events' = Append(events, e)
  PROVE  RefreshAt' = IF e = "refresh" THEN RefreshAt \cup {Len(events) + 1}
                                       ELSE RefreshAt
<1>1. /\ Len(events) \in Nat
      /\ Len(events') = Len(events) + 1
      /\ \A i \in 1 .. Len(events) : events'[i] = events[i]
      /\ events'[Len(events) + 1] = e
  BY AppendProperties
<1>2. 1 .. Len(events') = 1 .. Len(events) \cup {Len(events) + 1}
  BY <1>1
<1> QED
  BY <1>1, <1>2 DEF RefreshAt

(* WaitEvent takes the first event: if it is the only refresh, none is     *)
(* left.                                                                   *)
LEMMA RefreshTaken ==
  ASSUME events \in Seq({"refresh", "quit"}), events # <<>>,
         events' = Tail(events), Head(events) # "quit"
  PROVE  /\ 1 \in RefreshAt
         /\ RefreshAt = {1} => RefreshAt' = {}
<1>1. /\ Len(events) \in Nat \ {0}
      /\ Len(events') = Len(events) - 1
      /\ \A i \in 1 .. Len(events') : events'[i] = events[i + 1]
  BY HeadTailProperties, EmptySeq
<1>2. events[1] = "refresh"
  BY <1>1
<1>3. 1 \in RefreshAt
  BY <1>1, <1>2 DEF RefreshAt
<1>4. ASSUME RefreshAt = {1}, NEW i \in RefreshAt' PROVE FALSE
  <2>1. i \in 1 .. Len(events') /\ events[i + 1] = "refresh"
    BY <1>1, <1>4 DEF RefreshAt
  <2>2. i + 1 \in RefreshAt /\ i + 1 # 1
    BY <1>1, <2>1 DEF RefreshAt
  <2> QED
    BY <1>4, <2>2
<1> QED
  BY <1>3, <1>4

LEMMA StepChain == TypeOK /\ ChainInv /\ [Next]_vars => ChainInv'
<1> SUFFICES ASSUME TypeOK, ChainInv, [Next]_vars PROVE ChainInv'
  OBVIOUS
<1>a. /\ events \in Seq({"refresh", "quit"})
      /\ timers \in Nat
  BY DEF TypeOK, QueuesOK, CountsOK
<1> USE DEF ChainInv, mainVars, sdlVars
<1>1. CASE sdl_refresh_timer_cb
  <2>1. RefreshAt' = RefreshAt \cup {Len(events) + 1}
    BY <1>1, <1>a, RefreshAppend DEF sdl_refresh_timer_cb
  <2>2. timers # 0 /\ timers' = timers - 1 /\ main_pc' = main_pc
    BY <1>1, <1>a DEF sdl_refresh_timer_cb
  <2> SUFFICES ASSUME main_pc \in {"events", "refresh", "display", "release"}
               PROVE  ChainInv'
    BY <2>2
  <2>3. timers = 1 /\ main_pc # "refresh" /\ RefreshAt = {}
    BY <2>2
  <2>4. timers' = 0 /\ RefreshAt' = {Len(events) + 1}
    BY <2>1, <2>2, <2>3
  <2> QED
    BY <2>2, <2>3, <2>4
<1>2. CASE UserQuit
  <2>1. RefreshAt' = RefreshAt
    BY <1>2, <1>a, RefreshAppend DEF UserQuit
  <2> QED
    BY <1>2, <2>1 DEF UserQuit
<1>3. CASE main
  <2>1. CASE WaitEvent
    <3>1. CASE Head(events) = "quit"
      BY <2>1, <3>1 DEF WaitEvent
    <3>2. CASE Head(events) # "quit"
      <4>1. /\ main_pc = "events" /\ main_pc' = "refresh" /\ timers' = timers
            /\ 1 \in RefreshAt /\ (RefreshAt = {1} => RefreshAt' = {})
        BY <1>a, <2>1, <3>2, RefreshTaken DEF WaitEvent
      <4> QED
        BY <4>1
    <3> QED
      BY <3>1, <3>2
  <2>2. CASE RefreshLater \/ RefreshSchedule
    <3>1. RefreshAt' = RefreshAt
      BY <2>2 DEF RefreshAt, RefreshLater, RefreshSchedule
    <3> QED
      BY <1>a, <2>2, <3>1 DEF RefreshLater, RefreshSchedule
  <2>3. CASE video_display \/ ReleasePicture
    <3>1. RefreshAt' = RefreshAt
      BY <2>3 DEF RefreshAt, video_display, ReleasePicture
    <3> QED
      BY <2>3, <3>1 DEF video_display, ReleasePicture
  <2>4. CASE CloseAudioLock \/ CloseAudioJoin \/ MainReturns
    BY <2>4 DEF CloseAudioLock, CloseAudioJoin, MainReturns
  <2> QED
    BY <1>3, <2>1, <2>2, <2>3, <2>4 DEF main
<1>4. CASE demux_thread
  <2>1. timers' = timers /\ main_pc' = main_pc
    BY <1>4, DemuxFrame DEF demuxKeeps
  <2>2. CASE PushQuit
    <3>1. RefreshAt' = RefreshAt
      BY <1>a, <2>2, RefreshAppend DEF PushQuit
    <3> QED
      BY <2>1, <3>1
  <2>3. CASE ~PushQuit
    <3>1. events' = events
      BY <1>4, <2>3 DEF demux_thread, stream_component_open, demuxMovesOnly,
         NoAudio, OpenAudioDevice, AudioCodecFails, SetAudioFields,
         UnpauseAudio, NoVideo, SetVideoFields, StartDecoder, OpenFile,
         CheckStreams, LoopTest, ReadEnds, ReadPacket, AllDone
    <3> QED
      BY <2>1, <3>1 DEF RefreshAt
  <2> QED
    BY <2>2, <2>3
<1>5. CASE decode_video_thread \/ VideoSpurious
  BY <1>5, DecoderFrame DEF decKeeps, RefreshAt
<1>6. CASE AudioRun \/ audio_callback \/ AudioSpurious
  BY <1>6, AudioFrame DEF audioKeeps, RefreshAt
<1>7. CASE UNCHANGED vars
  BY <1>7 DEF vars, RefreshAt
<1> QED
  BY <1>1, <1>2, <1>3, <1>4, <1>5, <1>6, <1>7 DEF Next

(* Until the player quits exactly one refresh is on its way.               *)
THEOREM RefreshChainHolds == Spec => []RefreshChain
<1>1. ChainInv => RefreshChain
  <2> SUFFICES ASSUME ChainInv,
                      main_pc \in {"events", "refresh", "display", "release"}
               PROVE  timers + Cardinality(RefreshAt)
                        + (IF main_pc = "refresh" THEN 1 ELSE 0) = 1
    BY DEF RefreshChain, RefreshAt
  <2>1. CASE RefreshAt = {}
    <3>1. Cardinality(RefreshAt) = 0
      BY <2>1, FS_EmptySet
    <3> QED
      BY <2>1, <3>1 DEF ChainInv
  <2>2. CASE \E i \in RefreshAt : RefreshAt = {i}
    <3>1. Cardinality(RefreshAt) = 1
      BY <2>2, FS_Singleton
    <3> QED
      BY <2>2, <3>1 DEF ChainInv
  <2> QED
    BY <2>1, <2>2 DEF ChainInv
<1> QED
  BY <1>1, InitChain, StepChain, SetupDone, PTL DEF Spec

-----------------------------------------------------------------------------
(* The limits of the queues *)

LEMMA InitQueue == Init => QueueInv
BY Limits DEF Init, QueueInv, QueueBound

LEMMA StepQueue == TypeOK /\ QueueInv /\ [Next]_vars => QueueInv'
<1> SUFFICES ASSUME TypeOK, QueueInv, [Next]_vars PROVE QueueInv'
  OBVIOUS
<1>a. /\ audioq \in Seq(Nat) /\ videoq \in Seq(Nat)
      /\ Len(audioq) \in Nat /\ Len(videoq) \in Nat
      /\ nread \in Nat
  BY Limits DEF TypeOK, QueuesOK, CountsOK
<1>b. audioq # <<>> => Len(Tail(audioq)) = Len(audioq) - 1
  BY <1>a, HeadTailProperties
<1>c. videoq # <<>> => Len(Tail(videoq)) = Len(videoq) - 1
  BY <1>a, HeadTailProperties
<1> USE Limits DEF QueueInv, QueueBound, mainVars, queueVars, demuxVars
<1>1. CASE sdl_refresh_timer_cb \/ UserQuit \/ main
  <2>1. UNCHANGED <<audioq, videoq, demux_pc>>
    BY <1>1, MainFrame DEF sdl_refresh_timer_cb, UserQuit, mainKeeps
  <2> QED
    BY <2>1
<1>2. CASE demux_thread
  <2>1. CASE SetAudioFields \/ StartDecoder
    BY <1>a, <2>1 DEF SetAudioFields, StartDecoder
  <2>2. CASE LoopTest
    BY <1>a, <2>2 DEF LoopTest, QueuesFull, demuxMovesOnly
  <2>3. CASE ReadPacket
    <3>1. /\ Len(Append(audioq, nread + 1)) = Len(audioq) + 1
          /\ Len(Append(videoq, nread + 1)) = Len(videoq) + 1
      BY <1>a, AppendProperties
    <3> QED
      BY <1>a, <2>3, <3>1 DEF ReadPacket
  <2>4. CASE ~(SetAudioFields \/ StartDecoder \/ LoopTest \/ ReadPacket)
    <3>1. UNCHANGED <<audioq, videoq>> /\ demux_pc' # "read"
      BY <1>2, <2>4 DEF demux_thread, stream_component_open, demuxMovesOnly,
         NoAudio, OpenAudioDevice, AudioCodecFails, UnpauseAudio, NoVideo,
         SetVideoFields, OpenFile, CheckStreams, ReadEnds, AllDone, PushQuit
    <3> QED
      BY <3>1
  <2> QED
    BY <2>1, <2>2, <2>3, <2>4
<1>3. CASE decode_video_thread \/ VideoSpurious
  <2>1. UNCHANGED <<audioq, demux_pc>> /\ (videoq' = videoq \/ VideoLook)
    BY <1>3, DecoderFrame DEF decKeeps, decode_video_thread, VideoGet,
       DecodeVideo, PictureRoom, AllocThenQuit, QueuePicture, VideoSpurious
  <2> QED
    BY <1>a, <1>c, <2>1 DEF VideoLook
<1>4. CASE AudioRun \/ audio_callback \/ AudioSpurious
  <2>1. UNCHANGED <<videoq, demux_pc>> /\ (audioq' = audioq \/ AudioLook)
    BY <1>4, AudioFrame DEF audioKeeps, audio_callback, AudioRun, MixAudio,
       CallbackReturns, DecodeAudio, FreeAudioPacket, AudioGet, AudioSpurious
  <2> QED
    BY <1>a, <1>b, <2>1 DEF AudioLook
<1>5. CASE UNCHANGED vars
  BY <1>5 DEF vars
<1> QED
  BY <1>1, <1>2, <1>3, <1>4, <1>5 DEF Next

(* A queue exceeds its limit by one packet at most, although demux_thread  *)
(* tests its size without its mutex.                                       *)
THEOREM QueueBoundHolds == Spec => []QueueBound
<1>1. QueueInv => QueueBound
  BY DEF QueueInv
<1> QED
  BY <1>1, InitQueue, StepQueue, SetupDone, PTL DEF Spec

-----------------------------------------------------------------------------
(* Queues as sets, and lanes *)

LEMMA SetOfAppend ==
  ASSUME NEW S, NEW s \in Seq(S), NEW e \in S
  PROVE  ToSet(Append(s, e)) = ToSet(s) \cup {e}
<1>1. /\ Append(s, e) \in Seq(S)
      /\ Len(s) \in Nat
      /\ Len(Append(s, e)) = Len(s) + 1
      /\ \A i \in 1 .. Len(s) : Append(s, e)[i] = s[i]
      /\ Append(s, e)[Len(s) + 1] = e
  BY AppendProperties
<1>2. /\ DOMAIN s = 1 .. Len(s)
      /\ DOMAIN Append(s, e) = 1 .. Len(s) \cup {Len(s) + 1}
  BY <1>1
<1> QED
  BY <1>1, <1>2 DEF ToSet

LEMMA SetOfTail ==
  ASSUME NEW S, NEW s \in Seq(S), s # <<>>
  PROVE  ToSet(s) = {Head(s)} \cup ToSet(Tail(s))
<1>1. /\ Tail(s) \in Seq(S)
      /\ Len(s) \in Nat \ {0}
      /\ Len(Tail(s)) = Len(s) - 1
      /\ \A i \in 1 .. Len(Tail(s)) : Tail(s)[i] = s[i + 1]
      /\ Head(s) = s[1]
  BY HeadTailProperties, EmptySeq
<1>2. /\ DOMAIN s = 1 .. Len(s)
      /\ DOMAIN Tail(s) = 1 .. Len(Tail(s))
  BY <1>1
<1>3. ASSUME NEW x \in ToSet(s) PROVE x = Head(s) \/ x \in ToSet(Tail(s))
  <2>1. PICK i \in 1 .. Len(s) : x = s[i]
    BY <1>2, <1>3 DEF ToSet
  <2>2. CASE i # 1
    <3>1. i - 1 \in 1 .. Len(Tail(s)) /\ Tail(s)[i - 1] = s[i]
      BY <1>1, <2>2
    <3> QED
      BY <1>2, <2>1, <3>1 DEF ToSet
  <2> QED
    BY <1>1, <2>1, <2>2
<1>4. ASSUME NEW x \in ToSet(Tail(s)) PROVE x \in ToSet(s)
  <2>1. PICK i \in 1 .. Len(Tail(s)) : x = Tail(s)[i]
    BY <1>2, <1>4 DEF ToSet
  <2>2. i + 1 \in DOMAIN s /\ x = s[i + 1]
    BY <1>1, <1>2, <2>1
  <2> QED
    BY <2>2 DEF ToSet
<1>5. Head(s) \in ToSet(s)
  BY <1>1, <1>2 DEF ToSet
<1> QED
  BY <1>3, <1>4, <1>5

LEMMA IncreasingAppend ==
  ASSUME NEW s \in Seq(Nat), NEW e \in Nat, Increasing(s),
         \A x \in ToSet(s) : x < e
  PROVE  Increasing(Append(s, e))
<1>1. /\ Len(s) \in Nat
      /\ Len(Append(s, e)) = Len(s) + 1
      /\ \A i \in 1 .. Len(s) : Append(s, e)[i] = s[i]
      /\ Append(s, e)[Len(s) + 1] = e
  BY AppendProperties
<1>2. \A i \in 1 .. Len(s) : s[i] < e
  BY DEF ToSet
<1> SUFFICES ASSUME NEW i \in 1 .. Len(s) + 1, NEW j \in 1 .. Len(s) + 1, i < j
             PROVE  Append(s, e)[i] < Append(s, e)[j]
  BY <1>1 DEF Increasing
<1>3. i \in 1 .. Len(s) /\ (j \in 1 .. Len(s) \/ j = Len(s) + 1)
  BY <1>1
<1> QED
  BY <1>1, <1>2, <1>3 DEF Increasing

LEMMA IncreasingTail ==
  ASSUME NEW s \in Seq(Nat), s # <<>>, Increasing(s)
  PROVE  Increasing(Tail(s)) /\ \A x \in ToSet(Tail(s)) : Head(s) < x
<1>1. /\ Tail(s) \in Seq(Nat)
      /\ Len(s) \in Nat \ {0}
      /\ Len(Tail(s)) = Len(s) - 1
      /\ \A i \in 1 .. Len(Tail(s)) : Tail(s)[i] = s[i + 1]
      /\ Head(s) = s[1]
  BY HeadTailProperties, EmptySeq
<1>2. Increasing(Tail(s))
  <2> SUFFICES ASSUME NEW i \in 1 .. Len(Tail(s)), NEW j \in 1 .. Len(Tail(s)),
                      i < j
               PROVE  Tail(s)[i] < Tail(s)[j]
    BY DEF Increasing
  <2>1. i + 1 \in 1 .. Len(s) /\ j + 1 \in 1 .. Len(s) /\ i + 1 < j + 1
    BY <1>1
  <2> QED
    BY <1>1, <2>1 DEF Increasing
<1>3. ASSUME NEW x \in ToSet(Tail(s)) PROVE Head(s) < x
  <2>1. PICK i \in 1 .. Len(Tail(s)) : x = Tail(s)[i]
    BY <1>1, <1>3 DEF ToSet
  <2>2. i + 1 \in 1 .. Len(s) /\ 1 \in 1 .. Len(s) /\ 1 < i + 1 /\ x = s[i + 1]
    BY <1>1, <2>1
  <2> QED
    BY <1>1, <2>2 DEF Increasing
<1> QED
  BY <1>2, <1>3

(* packet_queue_put: the packet just read goes to the end of its queue. *)
LEMMA LanePut ==
  ASSUME NEW packets, NEW kind, NEW q \in Seq(Nat), NEW pkt \in Nat, NEW n \in Nat,
         NEW F \in SUBSET (1 .. n), NEW L \in SUBSET (1 .. n),
         Lane(packets, kind, q, pkt, n, F, L), packets[n + 1] = kind
  PROVE  Lane(packets, kind, Append(q, n + 1), pkt, n + 1, F, L)
<1>1. ToSet(Append(q, n + 1)) = ToSet(q) \cup {n + 1}
  BY SetOfAppend
<1>2. \A x \in ToSet(q) : x \in 1 .. n
  BY DEF Lane
<1>3. Increasing(Append(q, n + 1))
  BY <1>2, IncreasingAppend DEF Lane
<1>4. pkt < n + 1 /\ n + 1 \notin L /\ \A p \in F : p < n + 1
  BY DEF Lane
<1> QED
  BY <1>1, <1>2, <1>3, <1>4 DEF Lane

(* A packet of another kind is read, and put elsewhere, freed or lost. *)
LEMMA LanePass ==
  ASSUME NEW packets, NEW kind, NEW q \in Seq(Nat), NEW pkt \in Nat, NEW n \in Nat,
         NEW F \in SUBSET (1 .. n), NEW L \in SUBSET (1 .. n),
         Lane(packets, kind, q, pkt, n, F, L)
  PROVE  /\ Lane(packets, kind, q, pkt, n + 1, F, L)
         /\ Lane(packets, kind, q, pkt, n + 1, F, L \cup {n + 1})
         /\ packets[n + 1] # kind =>
              Lane(packets, kind, q, pkt, n + 1, F \cup {n + 1}, L)
<1>1. \A x \in ToSet(q) : x \in 1 .. n + 1 /\ x # n + 1
  BY DEF Lane
<1>2. pkt # 0 => pkt \in 1 .. n + 1 /\ pkt # n + 1
  BY DEF Lane
<1> QED
  BY <1>1, <1>2 DEF Lane

(* packet_queue_get: the first packet of the queue is taken. *)
LEMMA LaneTake ==
  ASSUME NEW packets, NEW kind, NEW q \in Seq(Nat), NEW n \in Nat, NEW F, NEW L,
         q # <<>>, Lane(packets, kind, q, 0, n, F, L)
  PROVE  /\ Lane(packets, kind, Tail(q), Head(q), n, F, L)
         /\ Head(q) # 0
<1>1. ToSet(q) = {Head(q)} \cup ToSet(Tail(q))
  BY SetOfTail
<1>2. Increasing(Tail(q)) /\ \A x \in ToSet(Tail(q)) : Head(q) < x
  BY IncreasingTail DEF Lane
<1> QED
  BY <1>1, <1>2 DEF Lane

(* av_free_packet: the packet a thread holds is freed. *)
LEMMA LaneFree ==
  ASSUME NEW packets, NEW kind, NEW q \in Seq(Nat), NEW pkt \in Nat, NEW n \in Nat,
         NEW F, NEW L, pkt # 0, Lane(packets, kind, q, pkt, n, F, L)
  PROVE  Lane(packets, kind, q, 0, n, F \cup {pkt}, L)
<1>1. \A x \in ToSet(q) : x \in 1 .. n /\ 0 < x
  BY DEF Lane
<1> QED
  BY <1>1 DEF Lane

(* Freeing a packet of another kind does not disturb a lane. *)
LEMMA LaneBeside ==
  ASSUME NEW packets, NEW kind, NEW q, NEW pkt, NEW n, NEW F, NEW L, NEW x,
         packets[x] # kind, Lane(packets, kind, q, pkt, n, F, L)
  PROVE  Lane(packets, kind, q, pkt, n, F \cup {x}, L)
BY DEF Lane

-----------------------------------------------------------------------------
(* One owner *)

ownVars == <<audioq, videoq, vpkt, apkt, freed, lost, nread, file>>

LEMMA InitOwner == Init => OwnerInv /\ PictureInv
<1> SUFFICES ASSUME Init PROVE OwnerInv /\ PictureInv
  OBVIOUS
<1>1. ToSet(<<>>) = {}
  BY DEF ToSet
<1>2. AudioLane /\ VideoLane
  BY <1>1 DEF Init, AudioLane, VideoLane, Lane, Increasing
<1>3. Covered
  BY <1>1 DEF Init, Covered
<1>4. HeldInv
  BY DEF Init, HeldInv, GetPcs, DecodePcs
<1>5. PictureInv
  BY <1>1 DEF Init, PictureInv, Increasing
<1> QED
  BY <1>2, <1>3, <1>4, <1>5 DEF OwnerInv

(* Before the first packet is read the queues are empty, and               *)
(* packet_queue_init changes nothing.                                      *)
LEMMA QueuesEmptyInSetup ==
  ASSUME TypeOK, OwnerInv, demux_pc \in SetupPcs
  PROVE  audioq = <<>> /\ videoq = <<>>
<1>1. nread = 0 /\ audioq \in Seq(Nat) /\ videoq \in Seq(Nat)
  BY DEF TypeOK, QueuesOK, OwnerInv, HeldInv
<1>2. ToSet(audioq) = {} /\ ToSet(videoq) = {}
  BY <1>1 DEF OwnerInv, AudioLane, VideoLane, Lane
<1>3. audioq # <<>> => Head(audioq) \in ToSet(audioq)
  BY <1>1, SetOfTail
<1>4. videoq # <<>> => Head(videoq) \in ToSet(videoq)
  BY <1>1, SetOfTail
<1> QED
  BY <1>2, <1>3, <1>4

(* The steps that move a packet. *)
LEMMA OwnerSteps ==
  ASSUME TypeOK, OwnerInv, [Next]_vars
  PROVE  \/ ReadPacket \/ VideoLook \/ DecodeVideo \/ QueuePicture
         \/ AudioLook \/ FreeAudioPacket
         \/ UNCHANGED ownVars
<1> USE DEF ownVars, mainVars, decVars, audioVars, demuxVars, queueVars
<1>1. CASE sdl_refresh_timer_cb \/ UserQuit \/ main
  BY <1>1, MainFrame DEF sdl_refresh_timer_cb, UserQuit, mainKeeps
<1>2. CASE demux_thread
  <2>1. CASE SetAudioFields \/ StartDecoder
    <3>1. audioq = <<>> /\ videoq = <<>>
      BY <2>1, QueuesEmptyInSetup DEF SetAudioFields, StartDecoder, SetupPcs
    <3> QED
      BY <2>1, <3>1 DEF SetAudioFields, StartDecoder, demuxKeeps
  <2>2. CASE ~(SetAudioFields \/ StartDecoder)
    BY <1>2, <2>2, DemuxFrame DEF demuxKeeps, demux_thread,
       stream_component_open, demuxMovesOnly, NoAudio, OpenAudioDevice,
       AudioCodecFails, UnpauseAudio, NoVideo, SetVideoFields, OpenFile,
       CheckStreams, LoopTest, ReadEnds, AllDone, PushQuit
  <2> QED
    BY <2>1, <2>2
<1>3. CASE decode_video_thread \/ VideoSpurious
  BY <1>3, DecoderFrame DEF decKeeps, decode_video_thread, VideoGet,
     PictureRoom, AllocThenQuit, VideoSpurious
<1>4. CASE AudioRun \/ audio_callback \/ AudioSpurious
  BY <1>4, AudioFrame DEF audioKeeps, audio_callback, AudioRun, MixAudio,
     CallbackReturns, DecodeAudio, AudioGet, AudioSpurious
<1>5. CASE UNCHANGED vars
  BY <1>5 DEF vars
<1> QED
  BY <1>1, <1>2, <1>3, <1>4, <1>5 DEF Next

LEMMA StepHeld == TypeOK /\ OwnerInv /\ [Next]_vars => HeldInv'
<1> SUFFICES ASSUME TypeOK, OwnerInv, [Next]_vars PROVE HeldInv'
  OBVIOUS
<1>a. HeldInv
  BY DEF OwnerInv
<1> USE <1>a DEF HeldInv, GetPcs, DecodePcs, SetupPcs, setupVars, mainVars,
      sdlVars, decVars, audioVars, queueVars, demuxVars
<1>1. CASE sdl_refresh_timer_cb \/ UserQuit
  BY <1>1 DEF sdl_refresh_timer_cb, UserQuit
<1>2. CASE main
  BY <1>2, MainFrame DEF mainKeeps, main, WaitEvent, RefreshLater,
     RefreshSchedule, video_display, ReleasePicture, CloseAudioLock,
     CloseAudioJoin, MainReturns
<1>3. CASE demux_thread
  <2>1. CASE OpenAudioDevice \/ SetAudioFields \/ UnpauseAudio \/ SetVideoFields
    BY <2>1 DEF OpenAudioDevice, SetAudioFields, UnpauseAudio, SetVideoFields,
       demuxKeeps
  <2>2. CASE StartDecoder
    <3>1. nread = 0 /\ vpkt \in Nat
      BY <2>2 DEF StartDecoder, TypeOK, QueuesOK
    <3>2. vpkt = 0
      BY <3>1 DEF OwnerInv, VideoLane, Lane
    <3> QED
      BY <2>2, <3>2 DEF StartDecoder, demuxKeeps
  <2>3. CASE CheckStreams \/ PushQuit
    BY <2>3 DEF CheckStreams, PushQuit, demuxKeeps
  <2>4. CASE ReadPacket
    BY <2>4 DEF ReadPacket, Wake, demuxKeeps
  <2>5. CASE NoAudio \/ AudioCodecFails \/ NoVideo \/ OpenFile \/ LoopTest
             \/ ReadEnds \/ AllDone
    BY <2>5 DEF NoAudio, AudioCodecFails, NoVideo, OpenFile, LoopTest,
       ReadEnds, AllDone, demuxMovesOnly, demuxKeeps
  <2> QED
    BY <1>3, <2>1, <2>2, <2>3, <2>4, <2>5 DEF demux_thread, stream_component_open
<1>4. CASE decode_video_thread \/ VideoSpurious
  <2>1. CASE VideoLook
    <3>1. videoq # <<>> => Head(videoq) # 0
      <4>1. vpkt = 0 /\ nread \in Nat /\ videoq \in Seq(Nat)
        BY <2>1, Limits DEF VideoLook, TypeOK, QueuesOK, CountsOK
      <4> QED
        BY <4>1, LaneTake DEF OwnerInv, VideoLane
    <3> QED
      BY <2>1, <3>1 DEF VideoLook, decKeeps
  <2>2. CASE VideoGet \/ DecodeVideo \/ PictureRoom
    BY <2>2 DEF VideoGet, DecodeVideo, PictureRoom, decKeeps
  <2>3. CASE AllocThenQuit \/ QueuePicture \/ VideoSpurious
    BY <2>3 DEF AllocThenQuit, QueuePicture, VideoSpurious, decKeeps
  <2> QED
    BY <1>4, <2>1, <2>2, <2>3 DEF decode_video_thread
<1>5. CASE AudioRun \/ audio_callback \/ AudioSpurious
  BY <1>5, AudioFrame DEF audioKeeps, audio_callback, AudioRun, MixAudio,
     CallbackReturns, DecodeAudio, FreeAudioPacket, AudioGet, AudioLook,
     AudioSpurious, Silence
<1>6. CASE UNCHANGED vars
  BY <1>6 DEF vars
<1> QED
  BY <1>1, <1>2, <1>3, <1>4, <1>5, <1>6 DEF Next

LEMMA StepLanes ==
  ASSUME TypeOK, OwnerInv, [Next]_vars
  PROVE  AudioLane' /\ VideoLane'
<1>a. /\ audioq \in Seq(Nat) /\ videoq \in Seq(Nat)
      /\ apkt \in Nat /\ vpkt \in Nat /\ nread \in Nat
      /\ freed \in SUBSET (1 .. nread) /\ lost \in SUBSET (1 .. nread)
  BY Limits DEF TypeOK, QueuesOK, CountsOK, OwnerInv, Covered
<1>b. /\ Lane(file.packets, "audio", audioq, apkt, nread, freed, lost)
      /\ Lane(file.packets, "video", videoq, vpkt, nread, freed, lost)
  BY DEF OwnerInv, AudioLane, VideoLane
<1>c. /\ apkt # 0 => file.packets[apkt] = "audio"
      /\ vpkt # 0 => file.packets[vpkt] = "video"
  BY <1>b DEF Lane
<1> USE DEF AudioLane, VideoLane
<1>1. CASE ReadPacket
  <2>a. file' = file /\ apkt' = apkt /\ vpkt' = vpkt /\ nread' = nread + 1
    BY <1>1 DEF ReadPacket, demuxKeeps
  <2>b. /\ Lane(file.packets, "audio", audioq, apkt, nread + 1, freed, lost)
        /\ Lane(file.packets, "video", videoq, vpkt, nread + 1, freed, lost)
    BY <1>a, <1>b, LanePass
  <2>1. CASE /\ file.packets[nread + 1] = "video"
             /\ videoq' = Append(videoq, nread + 1)
             /\ UNCHANGED <<audioq, freed, lost>>
    <3>1. Lane(file.packets, "video", videoq', vpkt, nread + 1, freed, lost)
      BY <1>a, <1>b, <2>1, LanePut
    <3> QED
      BY <2>a, <2>b, <2>1, <3>1
  <2>2. CASE /\ file.packets[nread + 1] = "audio"
             /\ audioq' = Append(audioq, nread + 1)
             /\ UNCHANGED <<videoq, freed, lost>>
    <3>1. Lane(file.packets, "audio", audioq', apkt, nread + 1, freed, lost)
      BY <1>a, <1>b, <2>2, LanePut
    <3> QED
      BY <2>a, <2>b, <2>2, <3>1
  <2>3. CASE /\ file.packets[nread + 1] = "other"
             /\ freed' = freed \cup {nread + 1}
             /\ UNCHANGED <<audioq, videoq, lost>>
    <3>1. /\ Lane(file.packets, "audio", audioq, apkt, nread + 1, freed', lost)
          /\ Lane(file.packets, "video", videoq, vpkt, nread + 1, freed', lost)
      BY <1>a, <1>b, <2>3, LanePass
    <3> QED
      BY <2>a, <2>3, <3>1
  <2>4. CASE /\ lost' = lost \cup {nread + 1}
             /\ UNCHANGED <<audioq, videoq, freed>>
    <3>1. /\ Lane(file.packets, "audio", audioq, apkt, nread + 1, freed, lost')
          /\ Lane(file.packets, "video", videoq, vpkt, nread + 1, freed, lost')
      BY <1>a, <1>b, <2>4, LanePass
    <3> QED
      BY <2>a, <2>4, <3>1
  <2> QED
    BY <1>1, <2>1, <2>2, <2>3, <2>4 DEF ReadPacket
<1>2. CASE VideoLook
  <2>a. UNCHANGED <<file, apkt, nread, freed, lost, audioq>> /\ vpkt = 0
    BY <1>2 DEF VideoLook, decKeeps, audioVars, demuxVars, OwnerInv, HeldInv, GetPcs
  <2>1. CASE videoq = <<>>
    BY <1>2, <1>b, <2>a, <2>1 DEF VideoLook
  <2>2. CASE videoq # <<>>
    <3>1. videoq' = Tail(videoq) /\ vpkt' = Head(videoq)
      BY <1>2, <2>2 DEF VideoLook
    <3>2. Lane(file.packets, "video", videoq', vpkt', nread, freed, lost)
      BY <1>a, <1>b, <2>a, <2>2, <3>1, LaneTake
    <3> QED
      BY <1>b, <2>a, <3>2
  <2> QED
    BY <2>1, <2>2
<1>3. CASE DecodeVideo \/ QueuePicture
  <2>a. UNCHANGED <<file, apkt, nread, lost, audioq, videoq>> /\ vpkt # 0
    BY <1>3 DEF DecodeVideo, QueuePicture, decKeeps, audioVars, demuxVars,
       OwnerInv, HeldInv, DecodePcs
  <2>1. CASE UNCHANGED <<vpkt, freed>>
    BY <1>b, <2>a, <2>1
  <2>2. CASE freed' = freed \cup {vpkt} /\ vpkt' = 0
    <3>1. Lane(file.packets, "video", videoq, 0, nread, freed', lost)
      BY <1>a, <1>b, <2>a, <2>2, LaneFree
    <3>2. Lane(file.packets, "audio", audioq, apkt, nread, freed', lost)
      BY <1>b, <1>c, <2>a, <2>2, LaneBeside
    <3> QED
      BY <2>a, <2>2, <3>1, <3>2
  <2> QED
    BY <1>3, <2>1, <2>2 DEF DecodeVideo, QueuePicture
<1>4. CASE AudioLook
  <2>a. UNCHANGED <<file, vpkt, nread, freed, lost, videoq>> /\ apkt = 0
    BY <1>4 DEF AudioLook, audioKeeps, decVars, demuxVars, OwnerInv, HeldInv, GetPcs
  <2>1. CASE audioq = <<>>
    BY <1>4, <1>b, <2>a, <2>1 DEF AudioLook
  <2>2. CASE audioq # <<>>
    <3>1. audioq' = Tail(audioq) /\ apkt' = Head(audioq)
      BY <1>4, <2>2 DEF AudioLook
    <3>2. Lane(file.packets, "audio", audioq', apkt', nread, freed, lost)
      BY <1>a, <1>b, <2>a, <2>2, <3>1, LaneTake
    <3> QED
      BY <1>b, <2>a, <3>2
  <2> QED
    BY <2>1, <2>2
<1>5. CASE FreeAudioPacket
  <2>a. UNCHANGED <<file, vpkt, nread, lost, audioq, videoq>> /\ apkt' = 0
    BY <1>5 DEF FreeAudioPacket, audioKeeps, decVars, demuxVars
  <2>1. CASE apkt = 0
    BY <1>5, <1>b, <2>a, <2>1 DEF FreeAudioPacket
  <2>2. CASE apkt # 0
    <3>1. freed' = freed \cup {apkt}
      BY <1>5, <2>2 DEF FreeAudioPacket
    <3>2. Lane(file.packets, "audio", audioq, 0, nread, freed', lost)
      BY <1>a, <1>b, <2>2, <3>1, LaneFree
    <3>3. Lane(file.packets, "video", videoq, vpkt, nread, freed', lost)
      BY <1>b, <1>c, <2>2, <3>1, LaneBeside
    <3> QED
      BY <2>a, <3>2, <3>3
  <2> QED
    BY <2>1, <2>2
<1>6. CASE UNCHANGED ownVars
  BY <1>b, <1>6 DEF ownVars
<1> QED
  BY <1>1, <1>2, <1>3, <1>4, <1>5, <1>6, OwnerSteps

LEMMA StepCovered ==
  ASSUME TypeOK, OwnerInv, [Next]_vars
  PROVE  Covered'
<1>a. /\ audioq \in Seq(Nat) /\ videoq \in Seq(Nat)
      /\ apkt \in Nat /\ vpkt \in Nat /\ nread \in Nat
  BY Limits DEF TypeOK, QueuesOK, CountsOK
<1>b. Covered /\ vpkt \notin lost /\ apkt \notin lost
  BY DEF OwnerInv, AudioLane, VideoLane, Lane, Covered
<1>1. CASE ReadPacket
  <2>a. apkt' = apkt /\ vpkt' = vpkt /\ nread' = nread + 1
    BY <1>1 DEF ReadPacket, demuxKeeps
  <2>b. 1 .. nread' = (1 .. nread) \cup {nread + 1} /\ nread + 1 \notin 1 .. nread
    BY <1>a, <2>a
  <2>c. /\ ToSet(Append(audioq, nread + 1)) = ToSet(audioq) \cup {nread + 1}
        /\ ToSet(Append(videoq, nread + 1)) = ToSet(videoq) \cup {nread + 1}
    BY <1>a, SetOfAppend
  <2>d. \/ /\ ToSet(videoq') = ToSet(videoq) \cup {nread + 1}
           /\ UNCHANGED <<audioq, freed, lost>>
        \/ /\ ToSet(audioq') = ToSet(audioq) \cup {nread + 1}
           /\ UNCHANGED <<videoq, freed, lost>>
        \/ /\ freed' = freed \cup {nread + 1}
           /\ UNCHANGED <<audioq, videoq, lost>>
        \/ /\ lost' = lost \cup {nread + 1}
           /\ UNCHANGED <<audioq, videoq, freed>>
    BY <1>1, <2>a, <2>c DEF ReadPacket
  <2> QED
    BY <1>b, <2>a, <2>b, <2>d DEF Covered
<1>2. CASE VideoLook
  <2>a. UNCHANGED <<apkt, nread, freed, lost, audioq>> /\ vpkt = 0
    BY <1>2 DEF VideoLook, decKeeps, audioVars, demuxVars, OwnerInv, HeldInv, GetPcs
  <2>1. CASE videoq = <<>>
    BY <1>2, <1>b, <2>a, <2>1 DEF VideoLook, Covered
  <2>2. CASE videoq # <<>>
    <3>1. videoq' = Tail(videoq) /\ vpkt' = Head(videoq)
      BY <1>2, <2>2 DEF VideoLook
    <3>2. ToSet(videoq) = {vpkt'} \cup ToSet(videoq') /\ vpkt' # 0
      BY <1>a, <2>a, <2>2, <3>1, SetOfTail, LaneTake DEF OwnerInv, VideoLane
    <3> QED
      BY <1>b, <2>a, <3>2 DEF Covered
  <2> QED
    BY <2>1, <2>2
<1>3. CASE DecodeVideo \/ QueuePicture
  <2>a. UNCHANGED <<apkt, nread, lost, audioq, videoq>> /\ vpkt # 0
    BY <1>3 DEF DecodeVideo, QueuePicture, decKeeps, audioVars, demuxVars,
       OwnerInv, HeldInv, DecodePcs
  <2>b. UNCHANGED <<vpkt, freed>> \/ (freed' = freed \cup {vpkt} /\ vpkt' = 0)
    BY <1>3 DEF DecodeVideo, QueuePicture
  <2> QED
    BY <1>b, <2>a, <2>b DEF Covered
<1>4. CASE AudioLook
  <2>a. UNCHANGED <<vpkt, nread, freed, lost, videoq>> /\ apkt = 0
    BY <1>4 DEF AudioLook, audioKeeps, decVars, demuxVars, OwnerInv, HeldInv, GetPcs
  <2>1. CASE audioq = <<>>
    BY <1>4, <1>b, <2>a, <2>1 DEF AudioLook, Covered
  <2>2. CASE audioq # <<>>
    <3>1. audioq' = Tail(audioq) /\ apkt' = Head(audioq)
      BY <1>4, <2>2 DEF AudioLook
    <3>2. ToSet(audioq) = {apkt'} \cup ToSet(audioq') /\ apkt' # 0
      BY <1>a, <2>a, <2>2, <3>1, SetOfTail, LaneTake DEF OwnerInv, AudioLane
    <3> QED
      BY <1>b, <2>a, <3>2 DEF Covered
  <2> QED
    BY <2>1, <2>2
<1>5. CASE FreeAudioPacket
  <2>a. UNCHANGED <<vpkt, nread, lost, audioq, videoq>> /\ apkt' = 0
    BY <1>5 DEF FreeAudioPacket, audioKeeps, decVars, demuxVars
  <2>b. freed' = IF apkt = 0 THEN freed ELSE freed \cup {apkt}
    BY <1>5 DEF FreeAudioPacket
  <2> QED
    BY <1>b, <2>a, <2>b DEF Covered
<1>6. CASE UNCHANGED ownVars
  BY <1>b, <1>6 DEF ownVars, Covered
<1> QED
  BY <1>1, <1>2, <1>3, <1>4, <1>5, <1>6, OwnerSteps

LEMMA OwnerHolds == Spec => [](TypeOK /\ OwnerInv)
<1>1. TypeOK /\ OwnerInv /\ [Next]_vars => OwnerInv'
  BY StepLanes, StepCovered, StepHeld DEF OwnerInv
<1>2. Init => OwnerInv
  BY InitOwner
<1> QED
  BY <1>1, <1>2, SetupDone, PTL DEF Spec

LEMMA DisjointSum ==
  ASSUME NEW n \in Nat, NEW A, NEW B, NEW C, NEW D,
         A \cup B \cup C \cup D = 1 .. n,
         A \cap B = {}, A \cap C = {}, A \cap D = {},
         B \cap C = {}, B \cap D = {}, C \cap D = {}
  PROVE  Cardinality(A) + Cardinality(B) + Cardinality(C) + Cardinality(D) = n
<1>1. IsFiniteSet(1 .. n) /\ Cardinality(1 .. n) = n
  BY FS_Interval
<1>2. /\ IsFiniteSet(A) /\ IsFiniteSet(B) /\ IsFiniteSet(C) /\ IsFiniteSet(D)
      /\ IsFiniteSet(A \cup B) /\ IsFiniteSet(A \cup B \cup C)
  BY <1>1, FS_Subset
<1>3. /\ Cardinality(A) \in Nat /\ Cardinality(B) \in Nat
      /\ Cardinality(C) \in Nat /\ Cardinality(D) \in Nat
  BY <1>2, FS_CardinalityType
<1>4. /\ A \cap B = {} /\ (A \cup B) \cap C = {}
      /\ (A \cup B \cup C) \cap D = {} /\ Cardinality({}) = 0
  BY FS_EmptySet
<1>5. Cardinality(A \cup B) = Cardinality(A) + Cardinality(B)
  BY <1>2, <1>3, <1>4, FS_Union
<1>6. Cardinality(A \cup B \cup C) = Cardinality(A \cup B) + Cardinality(C)
  <2>1. Cardinality((A \cup B) \cup C)
          = Cardinality(A \cup B) + Cardinality(C) - Cardinality((A \cup B) \cap C)
    BY <1>2, FS_Union
  <2> QED
    BY <1>3, <1>4, <1>5, <2>1
<1>7. n = Cardinality(A \cup B \cup C) + Cardinality(D)
  <2>1. Cardinality((A \cup B \cup C) \cup D)
          = Cardinality(A \cup B \cup C) + Cardinality(D)
              - Cardinality((A \cup B \cup C) \cap D)
    BY <1>2, FS_Union
  <2>2. Cardinality(A \cup B \cup C \cup D) = n
    BY <1>1
  <2>3. Cardinality((A \cup B \cup C) \cap D) = 0
    BY <1>4
  <2> QED
    BY <1>3, <1>5, <1>6, <2>1, <2>2, <2>3
<1> QED
  BY <1>3, <1>5, <1>6, <1>7

(* Every packet read has one owner: it is queued, held by the thread that  *)
(* took it, freed or lost, and never two of these.                         *)
THEOREM OneOwnerHolds == Spec => []OneOwner
<1>1. TypeOK /\ OwnerInv => OneOwner
  <2> SUFFICES ASSUME TypeOK, OwnerInv PROVE OneOwner
    OBVIOUS
  <2> DEFINE queued == ToSet(audioq) \cup ToSet(videoq)
             held   == {vpkt, apkt} \ {0}
  <2>a. /\ apkt \in Nat /\ vpkt \in Nat /\ nread \in Nat
        /\ freed \in SUBSET Nat
    BY Limits DEF TypeOK, QueuesOK, CountsOK
  <2>1. \A x \in ToSet(audioq) : /\ x \in Nat /\ file.packets[x] = "audio"
                                 /\ x \notin lost /\ x # apkt /\ x \notin freed
    BY <2>a DEF OwnerInv, AudioLane, Lane
  <2>2. \A x \in ToSet(videoq) : /\ x \in Nat /\ file.packets[x] = "video"
                                 /\ x \notin lost /\ x # vpkt /\ x \notin freed
    BY <2>a DEF OwnerInv, VideoLane, Lane
  <2>3. apkt # 0 => /\ file.packets[apkt] = "audio"
                    /\ apkt \notin lost /\ apkt \notin freed
    BY <2>a DEF OwnerInv, AudioLane, Lane
  <2>4. vpkt # 0 => /\ file.packets[vpkt] = "video"
                    /\ vpkt \notin lost /\ vpkt \notin freed
    BY <2>a DEF OwnerInv, VideoLane, Lane
  <2>5. queued \cup held \cup freed \cup lost = 1 .. nread /\ freed \cap lost = {}
    BY DEF OwnerInv, Covered
  <2>6. /\ queued \cap held = {} /\ queued \cap freed = {} /\ queued \cap lost = {}
        /\ held \cap freed = {} /\ held \cap lost = {}
    BY <2>1, <2>2, <2>3, <2>4
  <2>7. Cardinality(queued) + Cardinality(held) + Cardinality(freed)
          + Cardinality(lost) = nread
    <3> HIDE DEF queued, held
    <3> QED
      BY <2>a, <2>5, <2>6, DisjointSum
  <2>8. vpkt = apkt => vpkt = 0
    BY <2>3, <2>4
  <2>9. dec_pc \in {"none"} \cup GetPcs => vpkt = 0
    BY DEF OwnerInv, HeldInv
  <2> QED
    BY <2>5, <2>7, <2>8, <2>9 DEF OneOwner
<1> QED
  BY <1>1, OwnerHolds, PTL

-----------------------------------------------------------------------------
(* File order *)

(* Nobody takes a packet back. *)
LEMMA FreedGrows ==
  ASSUME TypeOK, OwnerInv, [Next]_vars
  PROVE  freed \subseteq freed' /\ file' = file
<1>1. freed \subseteq freed'
  BY OwnerSteps DEF ReadPacket, VideoLook, DecodeVideo, QueuePicture, AudioLook,
     FreeAudioPacket, ownVars
<1>2. file' = file
  BY OwnerSteps DEF ReadPacket, VideoLook, DecodeVideo, QueuePicture, AudioLook,
     FreeAudioPacket, ownVars, demuxKeeps, decKeeps, audioKeeps
<1> QED
  BY <1>1, <1>2

(* The steps that move a picture. *)
LEMMA PictureSteps ==
  ASSUME [Next]_vars
  PROVE  \/ video_display \/ ReleasePicture \/ QueuePicture
         \/ /\ UNCHANGED <<pictq, shown>>
            /\ main_pc' = "release" <=> main_pc = "release"
<1> USE DEF mainVars, decVars, audioVars, demuxVars, queueVars
<1>1. CASE sdl_refresh_timer_cb \/ UserQuit
  BY <1>1 DEF sdl_refresh_timer_cb, UserQuit
<1>2. CASE main
  BY <1>2 DEF main, WaitEvent, RefreshLater, RefreshSchedule, CloseAudioLock,
     CloseAudioJoin, MainReturns
<1>3. CASE demux_thread
  BY <1>3, DemuxFrame DEF demuxKeeps
<1>4. CASE decode_video_thread \/ VideoSpurious
  BY <1>4, DecoderFrame DEF decKeeps, decode_video_thread, VideoGet, VideoLook,
     DecodeVideo, PictureRoom, AllocThenQuit, VideoSpurious
<1>5. CASE AudioRun \/ audio_callback \/ AudioSpurious
  BY <1>5, AudioFrame DEF audioKeeps
<1>6. CASE UNCHANGED vars
  BY <1>6 DEF vars
<1> QED
  BY <1>1, <1>2, <1>3, <1>4, <1>5, <1>6 DEF Next

LEMMA StepPicture ==
  TypeOK /\ SetupInv /\ OwnerInv /\ PictureInv /\ [Next]_vars => PictureInv'
<1> SUFFICES ASSUME TypeOK, SetupInv, OwnerInv, PictureInv, [Next]_vars
             PROVE  PictureInv'
  OBVIOUS
<1>a. pictq \in Seq(Nat) /\ shown \in Nat /\ vpkt \in Nat
  BY DEF TypeOK, QueuesOK
<1>b. freed \subseteq freed' /\ file' = file
  BY FreedGrows
<1>1. CASE video_display
  <2>1. pictq # <<>> /\ pictq' = pictq /\ shown' = Head(pictq) /\ main_pc' = "release"
    BY <1>1 DEF video_display, SetupInv
  <2>2. ToSet(pictq) = {Head(pictq)} \cup ToSet(Tail(pictq))
    BY <1>a, <2>1, SetOfTail
  <2>3. /\ Head(pictq) \in Nat
        /\ \A x \in ToSet(pictq) : Head(pictq) <= x
    <3>1. \A x \in ToSet(Tail(pictq)) : Head(pictq) < x
      BY <1>a, <2>1, IncreasingTail DEF PictureInv
    <3>2. Head(pictq) \in Nat
      BY <1>a, <2>1, SeqSteps
    <3>3. \A x \in ToSet(pictq) : x \in Nat
      BY <1>a DEF ToSet
    <3> QED
      BY <2>2, <3>1, <3>2, <3>3
  <2> QED
    BY <1>b, <2>1, <2>2, <2>3 DEF PictureInv
<1>2. CASE ReleasePicture
  <2>1. /\ pictq # <<>> /\ pictq' = Tail(pictq) /\ shown' = shown
        /\ main_pc = "release" /\ main_pc' = "events"
    BY <1>2 DEF ReleasePicture, SetupInv
  <2>2. ToSet(pictq) = {Head(pictq)} \cup ToSet(Tail(pictq))
    BY <1>a, <2>1, SetOfTail
  <2>3. Increasing(Tail(pictq)) /\ \A x \in ToSet(Tail(pictq)) : Head(pictq) < x
    BY <1>a, <2>1, IncreasingTail DEF PictureInv
  <2>4. \A x \in ToSet(pictq) : x \in Nat
    BY <1>a DEF ToSet
  <2>5. \A x \in ToSet(pictq') : shown < x
    <3>1. shown <= Head(pictq) /\ Head(pictq) \in Nat
      BY <2>1, <2>2, <2>4 DEF PictureInv
    <3> QED
      BY <1>a, <2>1, <2>2, <2>3, <2>4, <3>1
  <2> QED
    BY <1>b, <2>1, <2>2, <2>3, <2>5 DEF PictureInv
<1>3. CASE QueuePicture
  <2>1. /\ pictq' = Append(pictq, vpkt) /\ vpkt # 0 /\ vpkt \in freed'
        /\ UNCHANGED <<shown, main_pc>>
    BY <1>3 DEF QueuePicture, decKeeps, mainVars, OwnerInv, HeldInv, DecodePcs
  <2>2. file.packets[vpkt] = "video" /\
        \A p \in freed : file.packets[p] = "video" => p < vpkt
    BY <2>1 DEF OwnerInv, VideoLane, Lane
  <2>3. shown < vpkt /\ \A x \in ToSet(pictq) : x < vpkt
    BY <1>a, <2>1, <2>2 DEF PictureInv
  <2>4. Increasing(pictq')
    BY <1>a, <2>1, <2>3, IncreasingAppend DEF PictureInv
  <2>5. ToSet(pictq') = ToSet(pictq) \cup {vpkt}
    BY <1>a, <2>1, SetOfAppend
  <2>6. ASSUME NEW x \in ToSet(pictq')
        PROVE  /\ x \in freed' /\ file'.packets[x] = "video"
               /\ IF main_pc' = "release" THEN shown' <= x ELSE shown' < x
    <3>1. CASE x = vpkt
      BY <1>a, <1>b, <2>1, <2>2, <2>3, <3>1
    <3>2. CASE x \in ToSet(pictq)
      BY <1>b, <2>1, <3>2 DEF PictureInv
    <3> QED
      BY <2>5, <2>6, <3>1, <3>2
  <2>7. shown' # 0 => shown' \in freed' /\ file'.packets[shown'] = "video"
    BY <1>b, <2>1 DEF PictureInv
  <2> QED
    BY <2>4, <2>6, <2>7 DEF PictureInv
<1>4. CASE /\ UNCHANGED <<pictq, shown>>
           /\ main_pc' = "release" <=> main_pc = "release"
  BY <1>b, <1>4 DEF PictureInv
<1> QED
  BY <1>1, <1>2, <1>3, <1>4, PictureSteps

(* Pictures are shown, and audio packets are taken up, in file order and   *)
(* none of them twice.                                                     *)
THEOREM PlaysInFileOrderHolds == Spec => PlaysInFileOrder
<1> DEFINE Ordered ==
      /\ shown' # shown => shown' > shown
      /\ apkt' # apkt /\ apkt' # 0 =>
           \A p \in freed : file.packets[p] = "audio" => apkt' > p
<1>1. TypeOK /\ SetupInv /\ OwnerInv /\ PictureInv /\ [Next]_vars => [Ordered]_vars
  <2> SUFFICES ASSUME TypeOK, SetupInv, OwnerInv, PictureInv, [Next]_vars
               PROVE  Ordered
    OBVIOUS
  <2>a. /\ pictq \in Seq(Nat) /\ audioq \in Seq(Nat)
        /\ shown \in Nat /\ nread \in Nat /\ freed \in SUBSET Nat
    BY Limits DEF TypeOK, QueuesOK, CountsOK
  <2>1. ASSUME shown' # shown PROVE shown' > shown
    <3>1. video_display
      BY <2>1, PictureSteps DEF ReleasePicture, QueuePicture, decKeeps, mainVars
    <3>2. pictq # <<>> /\ shown' = Head(pictq) /\ main_pc = "display"
      BY <3>1 DEF video_display, SetupInv
    <3>3. Head(pictq) \in ToSet(pictq) /\ Head(pictq) \in Nat
      BY <2>a, <3>2, SetOfTail, SeqSteps
    <3> QED
      BY <2>a, <3>2, <3>3 DEF PictureInv
  <2>2. ASSUME apkt' # apkt, apkt' # 0,
               NEW p \in freed, file.packets[p] = "audio"
        PROVE  apkt' > p
    <3>1. AudioLook
      BY <2>2, OwnerSteps DEF ReadPacket, VideoLook, DecodeVideo, QueuePicture,
         FreeAudioPacket, ownVars, demuxKeeps, decKeeps, audioVars
    <3>2. audioq # <<>> /\ apkt' = Head(audioq)
      BY <2>2, <3>1 DEF AudioLook
    <3>3. Head(audioq) \in ToSet(audioq) /\ Head(audioq) \in Nat /\ p \in Nat
      BY <2>a, <3>2, SetOfTail, SeqSteps
    <3>4. p < Head(audioq)
      BY <2>2, <3>3 DEF OwnerInv, AudioLane, Lane
    <3> QED
      BY <3>2, <3>3, <3>4
  <2> QED
    BY <2>1, <2>2
<1>2. Init => PictureInv
  BY InitOwner
<1> QED
  BY <1>1, <1>2, StepPicture, SetupDone, OwnerHolds, PTL
     DEF Spec, PlaysInFileOrder

-----------------------------------------------------------------------------
(* The picture queue inside the player: with demux, the decoder, main and  *)
(* the refresh around it, pictq is the bounded buffer of BoundedBuffer.    *)

Pictures == INSTANCE BoundedBuffer WITH
  Capacity <- VIDEO_PICTURE_QUEUE_SIZE, Items <- Nat, buffer <- pictq

(* The room that queue_picture has seen (lines 573-580) is still there     *)
(* when it comes to fill it: only decode_video_thread adds pictures.       *)
RoomInv == dec_pc = "fill" => Len(pictq) < VIDEO_PICTURE_QUEUE_SIZE

(* Only PictureRoom leads to the filling of a picture. *)
LEMMA FillSteps ==
  ASSUME [Next]_vars, dec_pc' = "fill"
  PROVE  PictureRoom \/ dec_pc = "fill"
<1> USE DEF mainVars, decVars, audioVars, demuxVars, queueVars
<1>1. CASE sdl_refresh_timer_cb \/ UserQuit
  BY <1>1 DEF sdl_refresh_timer_cb, UserQuit
<1>2. CASE main
  BY <1>2 DEF main, WaitEvent, RefreshLater, RefreshSchedule,
     video_display, ReleasePicture, CloseAudioLock, CloseAudioJoin, MainReturns
<1>3. CASE demux_thread
  <2>1. CASE stream_component_open
    BY <2>1 DEF stream_component_open, demuxMovesOnly, NoAudio, OpenAudioDevice,
       AudioCodecFails, SetAudioFields, UnpauseAudio, NoVideo, SetVideoFields,
       StartDecoder
  <2>2. CASE ReadPacket
    BY <2>2 DEF ReadPacket, Wake
  <2>3. CASE OpenFile \/ CheckStreams \/ LoopTest \/ ReadEnds \/ AllDone \/ PushQuit
    BY <2>3 DEF demuxMovesOnly, OpenFile, CheckStreams, LoopTest, ReadEnds,
       AllDone, PushQuit
  <2> QED
    BY <1>3, <2>1, <2>2, <2>3 DEF demux_thread
<1>4. CASE decode_video_thread \/ VideoSpurious
  BY <1>4 DEF decode_video_thread, VideoGet, VideoLook,
     DecodeVideo, PictureRoom, AllocThenQuit, QueuePicture, VideoSpurious
<1>5. CASE AudioRun \/ audio_callback \/ AudioSpurious
  BY <1>5, AudioFrame DEF audioKeeps
<1>6. CASE UNCHANGED vars
  BY <1>6 DEF vars
<1> QED
  BY <1>1, <1>2, <1>3, <1>4, <1>5, <1>6 DEF Next

LEMMA StepRoom == TypeOK /\ SetupInv /\ RoomInv /\ [Next]_vars => RoomInv'
<1> SUFFICES ASSUME TypeOK, SetupInv, RoomInv, [Next]_vars, dec_pc' = "fill"
             PROVE  Len(pictq') < VIDEO_PICTURE_QUEUE_SIZE
  BY DEF RoomInv
<1>1. pictq \in Seq(Nat) /\ Len(pictq) \in Nat /\ VIDEO_PICTURE_QUEUE_SIZE \in Nat
  BY PlayerAssumption DEF TypeOK, QueuesOK
<1>2. CASE PictureRoom
  <2>1. pictq' = pictq /\ ~(Len(pictq) >= VIDEO_PICTURE_QUEUE_SIZE)
    BY <1>2 DEF PictureRoom
  <2> QED
    BY <1>1, <2>1
<1>3. CASE dec_pc = "fill"
  <2>1. Len(pictq) < VIDEO_PICTURE_QUEUE_SIZE
    BY <1>3 DEF RoomInv
  <2>2. CASE ReleasePicture
    <3>1. pictq # <<>> /\ pictq' = Tail(pictq)
      BY <2>2 DEF ReleasePicture, SetupInv
    <3>2. Len(pictq') = Len(pictq) - 1
      BY <1>1, <3>1, HeadTailProperties
    <3> QED
      BY <1>1, <2>1, <3>2
  <2>3. CASE QueuePicture
    BY <2>3 DEF QueuePicture
  <2>4. CASE video_display
    BY <2>1, <2>4 DEF video_display
  <2>5. CASE UNCHANGED pictq
    BY <2>1, <2>5
  <2> QED
    BY <2>2, <2>3, <2>4, <2>5, PictureSteps
<1> QED
  BY <1>2, <1>3, FillSteps

(* Refinement: pictq of the whole player is a bounded fifo buffer.  No     *)
(* picture is put into a full queue although the test of line 573 and the  *)
(* write of line 613 are separate, and none but the first leaves it (main, *)
(* line 524).                                                              *)
THEOREM PicturesAreBuffered == Spec => Pictures!Spec
<1>1. Init => Pictures!Init /\ RoomInv
  BY DEF Init, Pictures!Init, RoomInv
<1>2. TypeOK /\ SetupInv /\ RoomInv /\ [Next]_vars => [Pictures!Next]_pictq
  <2> SUFFICES ASSUME TypeOK, SetupInv, RoomInv, [Next]_vars
               PROVE  Pictures!Next \/ pictq' = pictq
    OBVIOUS
  <2>1. CASE QueuePicture
    <3>1. vpkt \in Nat /\ Len(pictq) < VIDEO_PICTURE_QUEUE_SIZE
          /\ pictq' = Append(pictq, vpkt)
      BY <2>1 DEF QueuePicture, RoomInv, TypeOK, QueuesOK
    <3> QED
      BY <3>1 DEF Pictures!Next, Pictures!Enter
  <2>2. CASE ReleasePicture
    <3>1. pictq # <<>> /\ pictq' = Tail(pictq)
      BY <2>2 DEF ReleasePicture, SetupInv
    <3> QED
      BY <3>1 DEF Pictures!Next, Pictures!Leave
  <2>3. CASE video_display
    BY <2>3 DEF video_display
  <2> QED
    BY <2>1, <2>2, <2>3, PictureSteps
<1> QED
  BY <1>1, <1>2, StepRoom, SetupDone, PTL DEF Spec, Pictures!Spec

=============================================================================
