------------------------------- MODULE Player -------------------------------
(***************************************************************************)
(* The whole player, coding-279/player/player6.c: five threads around one  *)
(* VideoState.                                                             *)
(*                                                                         *)
(*   main     the SDL event loop and video_refresh_timer                   *)
(*   timer    SDL's timer thread, which runs sdl_refresh_timer_cb          *)
(*   demux    demux_thread: opens the file, reads packets                  *)
(*   decoder  decode_video_thread                                          *)
(*   audio    SDL's audio thread, which runs audio_callback with the       *)
(*            device's mixer_lock held                                     *)
(*                                                                         *)
(* The packet queues are used at the level of PacketFifo and the picture   *)
(* queue at the level of BoundedBuffer, which PacketQueue and PictureQueue *)
(* implement.  A get still tests quit in one step and looks at the queue   *)
(* in the next: quit is set without the queue's mutex.                     *)
(*                                                                         *)
(* A packet is the position it has in the file.  Sizes are counted in      *)
(* packets and in sample blocks.  Once main has returned, the process and  *)
(* all its threads are gone.                                               *)
(***************************************************************************)
EXTENDS Integers, Sequences, FiniteSets, SequencesExt

CONSTANTS
  Files,                     \* the media files: records [streams, packets]
  MAX_AUDIOQ_SIZE,           \* line 21, in packets
  MAX_VIDEOQ_SIZE,           \* line 22, in packets
  VIDEO_PICTURE_QUEUE_SIZE,  \* line 33
  FRAMES_PER_PACKET,         \* audio frames a packet may hold
  FRAME_LEN,                 \* sample blocks of an audio frame
  CALLBACK_LEN               \* sample blocks the device asks for

ASSUME PlayerAssumption ==
  /\ \A f \in Files : /\ f.streams \subseteq {"audio", "video"}
                      /\ f.packets \in Seq(f.streams \cup {"other"})
  /\ {MAX_AUDIOQ_SIZE, MAX_VIDEOQ_SIZE} \subseteq Nat
  /\ {VIDEO_PICTURE_QUEUE_SIZE, FRAMES_PER_PACKET, FRAME_LEN, CALLBACK_LEN}
       \subseteq Nat \ {0}

VARIABLES
  (* shared: VideoState and globals *)
  quit,        \* is->quit
  audio_st,    \* audioStream, audio_st, audio_ctx, audioq, audio_swr_ctx set
  video_st,    \* video_st and video_ctx set
  screen,      \* screen_width is not 0
  texture,     \* the texture exists (resize is 0)
  audioq,      \* packets in is->audioq
  videoq,      \* packets in is->videoq
  pictq,       \* pictures in is->pictq
  (* SDL *)
  events,      \* the event queue
  timers,      \* armed one-shot timers
  device,      \* "none", "paused", "playing" or "shutdown"
  mixer_lock,  \* the thread that holds it, or "none"
  (* threads *)
  main_pc,
  demux_pc,
  dec_pc,
  audio_pc,
  file,        \* the file being played
  nread,       \* packets av_read_frame has returned
  vpkt,        \* the decoder's packet, 0 when it has none
  apkt,        \* is->audio_pkt, 0 when its data is NULL
  apkt_frames, \* frames left in it: audio_pkt_size
  audio_buf,   \* audio_buf_size - audio_buf_index
  len,         \* audio_callback's len
  freed,       \* packets released by av_free_packet
  lost,        \* packets whose put failed
  shown        \* the picture displayed last, 0 at first

setupVars == <<audio_st, video_st, screen>>
sdlVars   == <<events, timers, device, mixer_lock>>
decVars   == <<dec_pc, vpkt>>
audioVars == <<audio_pc, apkt, apkt_frames, audio_buf, len>>
demuxVars == <<demux_pc, nread>>
queueVars == <<audioq, videoq, pictq>>
mainVars  == <<main_pc, texture, shown>>
vars == <<quit, setupVars, sdlVars, decVars, audioVars, demuxVars, queueVars,
          mainVars, file, freed, lost>>

(* main, lines 906-958: SDL is up, the first refresh is scheduled and the  *)
(* demux thread is created.                                                *)
Init ==
  /\ quit = FALSE
  /\ audio_st = FALSE /\ video_st = FALSE /\ screen = FALSE
  /\ texture = FALSE
  /\ audioq = <<>> /\ videoq = <<>> /\ pictq = <<>>
  /\ events = <<>>
  /\ timers = 1
  /\ device = "none"
  /\ mixer_lock = "none"
  /\ main_pc = "events"
  /\ demux_pc = "open"
  /\ dec_pc = "none"
  /\ audio_pc = "none"
  /\ file \in Files
  /\ nread = 0
  /\ vpkt = 0
  /\ apkt = 0 /\ apkt_frames = 0
  /\ audio_buf = 0 /\ len = 0
  /\ freed = {} /\ lost = {}
  /\ shown = 0

Running == main_pc # "exited"

----------------------------------------------------------------------------
(* SDL's timer thread and the user *)

(* sdl_refresh_timer_cb, lines 406-412: the timer is one-shot. *)
sdl_refresh_timer_cb ==
  /\ Running
  /\ timers > 0
  /\ timers' = timers - 1
  /\ events' = Append(events, "refresh")
  /\ UNCHANGED <<quit, setupVars, device, mixer_lock, decVars, audioVars,
                 demuxVars, queueVars, mainVars, file, freed, lost>>

(* The user closes the window: SDL_QUIT. *)
UserQuit ==
  /\ Running
  /\ ~quit
  /\ \A i \in 1 .. Len(events) : events[i] # "quit"
  /\ events' = Append(events, "quit")
  /\ UNCHANGED <<quit, setupVars, timers, device, mixer_lock, decVars,
                 audioVars, demuxVars, queueVars, mainVars, file, freed, lost>>

----------------------------------------------------------------------------
(* main *)

mainKeeps == UNCHANGED <<setupVars, audioVars, demuxVars, audioq, videoq, vpkt,
                         file, freed, lost>>

(* Lines 961-970: one event. *)
WaitEvent ==
  /\ main_pc = "events"
  /\ events # <<>>
  /\ events' = Tail(events)
  /\ IF Head(events) = "quit"
       THEN quit' = TRUE /\ main_pc' = "sdl_quit"
       ELSE main_pc' = "refresh" /\ UNCHANGED quit
  /\ UNCHANGED <<timers, device, mixer_lock, dec_pc, pictq, texture, shown>>
  /\ mainKeeps

(* Mutant: the refresh that finds nothing to show arms no timer. *)
RefreshDropped ==
  /\ main_pc = "refresh"
  /\ ~video_st \/ pictq = <<>>
  /\ main_pc' = "events"
  /\ UNCHANGED <<quit, events, timers, device, mixer_lock, dec_pc, pictq,
                 texture, shown>>
  /\ mainKeeps

(* Lines 472-474 and 528-530: nothing to show, look again later. *)
RefreshLater ==
  /\ main_pc = "refresh"
  /\ ~video_st \/ pictq = <<>>
  /\ timers' = timers + 1
  /\ main_pc' = "events"
  /\ UNCHANGED <<quit, events, device, mixer_lock, dec_pc, pictq, texture, shown>>
  /\ mainKeeps

(* Lines 478-514: the delay is computed from the master clock and the next *)
(* refresh is scheduled, before the picture is shown.                      *)
RefreshSchedule ==
  /\ main_pc = "refresh"
  /\ video_st /\ pictq # <<>>
  /\ timers' = timers + 1
  /\ main_pc' = "display"
  /\ UNCHANGED <<quit, events, device, mixer_lock, dec_pc, pictq, texture, shown>>
  /\ mainKeeps

(* Lines 427-463: the texture is created once the size is known. *)
video_display ==
  /\ main_pc = "display"
  /\ texture' = (texture \/ screen)
  /\ shown' = Head(pictq)
  /\ main_pc' = "release"
  /\ UNCHANGED <<quit, events, timers, device, mixer_lock, dec_pc, pictq>>
  /\ mainKeeps

(* Mutant: SDL_CondSignal is missing. *)
ReleaseNoSignal ==
  /\ main_pc = "release"
  /\ pictq' = Tail(pictq)
  /\ main_pc' = "events"
  /\ UNCHANGED <<quit, events, timers, device, mixer_lock, dec_pc, texture, shown>>
  /\ mainKeeps

(* Lines 520-526: the slot is given back and the decoder is woken. *)
ReleasePicture ==
  /\ main_pc = "release"
  /\ pictq' = Tail(pictq)
  /\ dec_pc' = IF dec_pc = "room_wait" THEN "room" ELSE dec_pc
  /\ main_pc' = "events"
  /\ UNCHANGED <<quit, events, timers, device, mixer_lock, texture, shown>>
  /\ mainKeeps

(* SDL_Quit (line 966) closes the audio device first, if there is one: it  *)
(* takes mixer_lock to stop it and then joins the audio thread             *)
(* (SDL_audio.c, close_audio_device, 1109-1149).                           *)
CloseAudioLock ==
  /\ main_pc = "sdl_quit"
  /\ device # "none"
  /\ mixer_lock = "none"
  /\ device' = "shutdown"
  /\ main_pc' = "join_audio"
  /\ UNCHANGED <<quit, events, timers, mixer_lock, dec_pc, pictq, texture, shown>>
  /\ mainKeeps

CloseAudioJoin ==
  /\ \/ main_pc = "join_audio" /\ audio_pc = "exited"
     \/ main_pc = "sdl_quit" /\ device = "none"
  /\ device' = "none"
  /\ main_pc' = "audio_closed"
  /\ UNCHANGED <<quit, events, timers, mixer_lock, dec_pc, pictq, texture, shown>>
  /\ mainKeeps

(* The rest of SDL_Quit, and return 0 (line 967).  Nobody else is joined.  *)
MainReturns ==
  /\ main_pc = "audio_closed"
  /\ timers' = 0
  /\ events' = <<>>
  /\ main_pc' = "exited"
  /\ UNCHANGED <<quit, device, mixer_lock, dec_pc, pictq, texture, shown>>
  /\ mainKeeps

main ==
  \/ WaitEvent \/ RefreshLater \/ RefreshSchedule \/ video_display
  \/ ReleasePicture \/ CloseAudioLock \/ CloseAudioJoin \/ MainReturns

----------------------------------------------------------------------------
(* demux_thread *)

demuxKeeps == UNCHANGED <<quit, apkt, apkt_frames, audio_buf, len, vpkt, pictq,
                          timers, mainVars, file>>

demuxMovesOnly ==
  /\ demuxKeeps
  /\ UNCHANGED <<setupVars, sdlVars, dec_pc, audio_pc, nread, audioq, videoq,
                 freed, lost>>

(* Lines 820-846: the file is opened and its streams are looked up.  When  *)
(* either fails the thread returns -1 and tells nobody.                    *)
OpenFile ==
  /\ Running
  /\ demux_pc = "open"
  /\ demux_pc' \in {"open_audio", "exited"}
  /\ demuxMovesOnly

(* stream_component_open(audio): no such stream, no decoder (lines 683-697)*)
(* or SDL_OpenAudio fails (715-718).                                       *)
NoAudio ==
  /\ Running
  /\ demux_pc = "open_audio"
  /\ demux_pc' = "open_video"
  /\ demuxMovesOnly

(* Mutant: the device starts to play at once. *)
OpenAudioPlaying ==
  /\ Running
  /\ demux_pc = "open_audio"
  /\ "audio" \in file.streams
  /\ device = "none"
  /\ device' = "playing"
  /\ audio_pc' = "run"
  /\ demux_pc' = "open_audio_codec"
  /\ UNCHANGED <<setupVars, events, mixer_lock, dec_pc, nread, audioq, videoq,
                 freed, lost>>
  /\ demuxKeeps

(* SDL_OpenAudio, line 715: SDL creates its thread, the device is paused.  *)
OpenAudioDevice ==
  /\ Running
  /\ demux_pc = "open_audio"
  /\ "audio" \in file.streams
  /\ device = "none"
  /\ device' = "paused"
  /\ audio_pc' = "run"
  /\ demux_pc' = "open_audio_codec"
  /\ UNCHANGED <<setupVars, events, mixer_lock, dec_pc, nread, audioq, videoq,
                 freed, lost>>
  /\ demuxKeeps

(* avcodec_open2 fails, lines 722-725: the device stays open and paused.   *)
AudioCodecFails ==
  /\ Running
  /\ demux_pc = "open_audio_codec"
  /\ demux_pc' = "open_video"
  /\ demuxMovesOnly

(* Lines 729-773. *)
SetAudioFields ==
  /\ Running
  /\ demux_pc = "open_audio_codec"
  /\ audio_st' = TRUE
  /\ audioq' = <<>>
  /\ demux_pc' = "unpause"
  /\ UNCHANGED <<video_st, screen, sdlVars, dec_pc, audio_pc, nread, videoq,
                 freed, lost>>
  /\ demuxKeeps

(* SDL_PauseAudio(0), line 775, under the device's mixer_lock; a device    *)
(* that SDL_Quit is closing stays shut.                                    *)
UnpauseAudio ==
  /\ Running
  /\ demux_pc = "unpause"
  /\ mixer_lock = "none"
  /\ device' = IF device = "paused" THEN "playing" ELSE device
  /\ demux_pc' = "open_video"
  /\ UNCHANGED <<setupVars, events, mixer_lock, dec_pc, audio_pc, nread,
                 audioq, videoq, freed, lost>>
  /\ demuxKeeps

(* stream_component_open(video) fails, lines 683-697 and 722-725. *)
NoVideo ==
  /\ Running
  /\ demux_pc = "open_video"
  /\ demux_pc' = "check_streams"
  /\ demuxMovesOnly

(* Lines 778-784: from here on main looks at pictq_size. *)
SetVideoFields ==
  /\ Running
  /\ demux_pc = "open_video"
  /\ "video" \in file.streams
  /\ video_st' = TRUE
  /\ demux_pc' = "start_decoder"
  /\ UNCHANGED <<audio_st, screen, sdlVars, dec_pc, audio_pc, nread, audioq,
                 videoq, freed, lost>>
  /\ demuxKeeps

(* Lines 786-792. *)
StartDecoder ==
  /\ Running
  /\ demux_pc = "start_decoder"
  /\ videoq' = <<>>
  /\ dec_pc' = "get"
  /\ demux_pc' = "check_streams"
  /\ UNCHANGED <<setupVars, sdlVars, audio_pc, nread, audioq, freed, lost>>
  /\ demuxKeeps

(* Mutant: one stream is enough. *)
CheckOneStream ==
  /\ Running
  /\ demux_pc = "check_streams"
  /\ IF audio_st \/ video_st
       THEN screen' = TRUE /\ demux_pc' = "loop"
       ELSE demux_pc' = "fail" /\ UNCHANGED screen
  /\ UNCHANGED <<audio_st, video_st, sdlVars, dec_pc, audio_pc, nread, audioq,
                 videoq, freed, lost>>
  /\ demuxKeeps

(* Lines 854-860: both streams are needed. *)
CheckStreams ==
  /\ Running
  /\ demux_pc = "check_streams"
  /\ IF audio_st /\ video_st
       THEN screen' = TRUE /\ demux_pc' = "loop"
       ELSE demux_pc' = "fail" /\ UNCHANGED screen
  /\ UNCHANGED <<audio_st, video_st, sdlVars, dec_pc, audio_pc, nread, audioq,
                 videoq, freed, lost>>
  /\ demuxKeeps

(* Mutant: the limits count only together. *)
QueuesBothFull == Len(audioq) > MAX_AUDIOQ_SIZE /\ Len(videoq) > MAX_VIDEOQ_SIZE

(* Lines 865-873.  A full queue is looked at again after SDL_Delay(10).    *)
QueuesFull == Len(audioq) > MAX_AUDIOQ_SIZE \/ Len(videoq) > MAX_VIDEOQ_SIZE
LoopTest ==
  /\ Running
  /\ demux_pc = "loop"
  /\ quit \/ ~QueuesFull
  /\ demux_pc' = IF quit THEN "all_done" ELSE "read"
  /\ demuxMovesOnly

(* Lines 874-881: the end of the file, which is waited out, or an error of *)
(* the input, which ends the loop.                                         *)
ReadEnds ==
  /\ Running
  /\ demux_pc = "read"
  /\ \/ nread = Len(file.packets) /\ demux_pc' = "loop"
     \/ demux_pc' = "all_done"
  /\ demuxMovesOnly

(* Mutant: packet_queue_put does not signal. *)
WakeNobody(pc) == pc
Wake(pc) == IF pc = "get_wait" THEN "get" ELSE pc

(* Lines 883-889: the packet goes to its queue, whose consumer is woken if *)
(* it waits; an allocation failure in put loses it; others are freed.      *)
ReadPacket ==
  /\ Running
  /\ demux_pc = "read"
  /\ nread < Len(file.packets)
  /\ nread' = nread + 1
  /\ demux_pc' = "loop"
  /\ \/ /\ file.packets[nread'] = "video"
        /\ videoq' = Append(videoq, nread')
        /\ dec_pc' = Wake(dec_pc)
        /\ UNCHANGED <<audioq, audio_pc, freed, lost>>
     \/ /\ file.packets[nread'] = "audio"
        /\ audioq' = Append(audioq, nread')
        /\ audio_pc' = Wake(audio_pc)
        /\ UNCHANGED <<videoq, dec_pc, freed, lost>>
     \/ /\ file.packets[nread'] = "other"
        /\ freed' = freed \cup {nread'}
        /\ UNCHANGED <<audioq, videoq, dec_pc, audio_pc, lost>>
     \/ /\ file.packets[nread'] # "other"
        /\ lost' = lost \cup {nread'}
        /\ UNCHANGED <<audioq, videoq, dec_pc, audio_pc, freed>>
  /\ UNCHANGED <<setupVars, sdlVars>>
  /\ demuxKeeps

(* Lines 891-894. *)
AllDone ==
  /\ Running
  /\ demux_pc = "all_done"
  /\ quit
  /\ demux_pc' = "fail"
  /\ demuxMovesOnly

(* Lines 896-903. *)
PushQuit ==
  /\ Running
  /\ demux_pc = "fail"
  /\ events' = Append(events, "quit")
  /\ demux_pc' = "exited"
  /\ UNCHANGED <<setupVars, device, mixer_lock, dec_pc, audio_pc, nread,
                 audioq, videoq, freed, lost>>
  /\ demuxKeeps

stream_component_open ==
  \/ NoAudio \/ OpenAudioDevice \/ AudioCodecFails \/ SetAudioFields
  \/ UnpauseAudio \/ NoVideo \/ SetVideoFields \/ StartDecoder

demux_thread ==
  \/ OpenFile \/ stream_component_open \/ CheckStreams
  \/ LoopTest \/ ReadEnds \/ ReadPacket \/ AllDone \/ PushQuit

----------------------------------------------------------------------------
(* decode_video_thread *)

decKeeps == UNCHANGED <<quit, setupVars, sdlVars, audioVars, demuxVars, audioq,
                        mainVars, file, lost>>

(* packet_queue_get, lines 175-178: on quit it returns -1 and the thread   *)
(* leaves its loop (648-651).                                              *)
VideoGet ==
  /\ Running
  /\ dec_pc = "get"
  /\ dec_pc' = IF quit THEN "exited" ELSE "look"
  /\ UNCHANGED <<vpkt, videoq, pictq, freed>>
  /\ decKeeps

(* Mutant: the newest packet is taken. *)
VideoLookLast ==
  /\ Running
  /\ dec_pc = "look"
  /\ IF videoq = <<>>
       THEN dec_pc' = "get_wait" /\ UNCHANGED <<vpkt, videoq>>
       ELSE /\ vpkt' = Last(videoq)
            /\ videoq' = Front(videoq)
            /\ dec_pc' = "decode"
  /\ UNCHANGED <<pictq, freed>>
  /\ decKeeps

(* packet_queue_get, lines 180-195. *)
VideoLook ==
  /\ Running
  /\ dec_pc = "look"
  /\ IF videoq = <<>>
       THEN dec_pc' = "get_wait" /\ UNCHANGED <<vpkt, videoq>>
       ELSE /\ vpkt' = Head(videoq)
            /\ videoq' = Tail(videoq)
            /\ dec_pc' = "decode"
  /\ UNCHANGED <<pictq, freed>>
  /\ decKeeps

(* Lines 653-664: the packet completes a frame, or not (then it is freed,  *)
(* line 670, and the next one is fetched).                                 *)
DecodeVideo ==
  /\ Running
  /\ dec_pc = "decode"
  /\ \/ /\ dec_pc' = "room"
        /\ UNCHANGED <<vpkt, freed>>
     \/ /\ dec_pc' = "get"
        /\ freed' = freed \cup {vpkt}
        /\ vpkt' = 0
  /\ UNCHANGED <<videoq, pictq>>
  /\ decKeeps

(* queue_picture, lines 573-580; on quit the packet is not freed (666-668).*)
PictureRoom ==
  /\ Running
  /\ dec_pc = "room"
  /\ dec_pc' = CASE quit -> "exited"
                 [] ~quit /\ Len(pictq) >= VIDEO_PICTURE_QUEUE_SIZE -> "room_wait"
                 [] OTHER -> "fill"
  /\ UNCHANGED <<vpkt, videoq, pictq, freed>>
  /\ decKeeps

(* queue_picture, lines 588-595: quit was set while alloc_picture ran.     *)
AllocThenQuit ==
  /\ Running
  /\ dec_pc = "fill"
  /\ quit
  /\ dec_pc' = "exited"
  /\ UNCHANGED <<vpkt, videoq, pictq, freed>>
  /\ decKeeps

(* queue_picture, lines 583-614, and av_free_packet, line 670. *)
QueuePicture ==
  /\ Running
  /\ dec_pc = "fill"
  /\ pictq' = Append(pictq, vpkt)
  /\ freed' = freed \cup {vpkt}
  /\ vpkt' = 0
  /\ dec_pc' = "get"
  /\ UNCHANGED videoq
  /\ decKeeps

(* A wait ends without a signal. *)
VideoSpurious ==
  /\ Running
  /\ \/ dec_pc = "get_wait" /\ dec_pc' = "get"
     \/ dec_pc = "room_wait" /\ dec_pc' = "room"
  /\ UNCHANGED <<vpkt, videoq, pictq, freed>>
  /\ decKeeps

decode_video_thread ==
  \/ VideoGet \/ VideoLook \/ DecodeVideo \/ PictureRoom
  \/ AllocThenQuit \/ QueuePicture

----------------------------------------------------------------------------
(* SDL's audio thread and audio_callback *)

audioKeeps == UNCHANGED <<quit, setupVars, events, timers, device, decVars,
                          demuxVars, videoq, pictq, mainVars, file, lost>>

(* SDL_RunAudio (SDL_audio.c 681-780): the callback is called with         *)
(* mixer_lock held.  A paused device plays silence.                        *)
AudioRun ==
  /\ Running
  /\ audio_pc = "run"
  /\ \/ /\ device = "shutdown"
        /\ audio_pc' = "exited"
        /\ UNCHANGED <<mixer_lock, len>>
     \/ /\ device = "playing"
        /\ mixer_lock = "none"
        /\ mixer_lock' = "audio"
        /\ len' = CALLBACK_LEN
        /\ audio_pc' = "callback"
  /\ UNCHANGED <<apkt, apkt_frames, audio_buf, audioq, freed>>
  /\ audioKeeps

(* audio_callback, lines 380-403: mix what is left of the buffer. *)
MixAudio ==
  /\ Running
  /\ audio_pc = "callback"
  /\ len > 0 /\ audio_buf > 0
  /\ LET len1 == IF audio_buf > len THEN len ELSE audio_buf
     IN  len' = len - len1 /\ audio_buf' = audio_buf - len1
  /\ UNCHANGED <<audio_pc, mixer_lock, apkt, apkt_frames, audioq, freed>>
  /\ audioKeeps

(* The callback returns, SDL releases mixer_lock and plays the buffer. *)
CallbackReturns ==
  /\ Running
  /\ audio_pc = "callback"
  /\ len = 0
  /\ mixer_lock' = "none"
  /\ audio_pc' = "run"
  /\ UNCHANGED <<apkt, apkt_frames, audio_buf, len, audioq, freed>>
  /\ audioKeeps

(* audio_decode_frame, lines 310-352: decode the next frame of the packet. *)
(* An error skips the rest of the packet; a frame may also give no data.   *)
DecodeAudio ==
  /\ Running
  /\ audio_pc = "callback"
  /\ len > 0 /\ audio_buf = 0
  /\ apkt_frames > 0
  /\ \/ apkt_frames' = 0 /\ UNCHANGED audio_buf
     \/ apkt_frames' = apkt_frames - 1 /\ audio_buf' \in {0, FRAME_LEN}
  /\ UNCHANGED <<audio_pc, mixer_lock, len, apkt, audioq, freed>>
  /\ audioKeeps

(* Mutant: on an error the buffer stays empty. *)
NoSilence ==
  /\ audio_buf' = 0
  /\ audio_pc' = "callback"

(* Lines 384-387: no frame to be had, a block of silence instead. *)
Silence ==
  /\ audio_buf' = CALLBACK_LEN
  /\ audio_pc' = "callback"

(* Mutant: the packet is freed but still held. *)
FreeAndKeep ==
  /\ Running
  /\ audio_pc = "callback"
  /\ len > 0 /\ audio_buf = 0
  /\ apkt_frames = 0
  /\ freed' = IF apkt = 0 THEN freed ELSE freed \cup {apkt}
  /\ IF quit THEN Silence ELSE audio_pc' = "get" /\ UNCHANGED audio_buf
  /\ UNCHANGED <<mixer_lock, len, apkt, apkt_frames, audioq>>
  /\ audioKeeps

(* Lines 353-358: the packet is used up; on quit audio_decode_frame        *)
(* returns -1.                                                             *)
FreeAudioPacket ==
  /\ Running
  /\ audio_pc = "callback"
  /\ len > 0 /\ audio_buf = 0
  /\ apkt_frames = 0
  /\ freed' = IF apkt = 0 THEN freed ELSE freed \cup {apkt}
  /\ apkt' = 0
  /\ IF quit THEN Silence ELSE audio_pc' = "get" /\ UNCHANGED audio_buf
  /\ UNCHANGED <<mixer_lock, len, apkt_frames, audioq>>
  /\ audioKeeps

(* packet_queue_get, lines 175-178, called at line 360. *)
AudioGet ==
  /\ Running
  /\ audio_pc = "get"
  /\ IF quit THEN Silence ELSE audio_pc' = "look" /\ UNCHANGED audio_buf
  /\ UNCHANGED <<mixer_lock, len, apkt, apkt_frames, audioq, freed>>
  /\ audioKeeps

(* packet_queue_get, lines 180-195, and lines 363-368. *)
AudioLook ==
  /\ Running
  /\ audio_pc = "look"
  /\ IF audioq = <<>>
       THEN audio_pc' = "get_wait" /\ UNCHANGED <<apkt, apkt_frames, audioq>>
       ELSE /\ apkt' = Head(audioq)
            /\ audioq' = Tail(audioq)
            /\ apkt_frames' \in 1 .. FRAMES_PER_PACKET
            /\ audio_pc' = "callback"
  /\ UNCHANGED <<mixer_lock, len, audio_buf, freed>>
  /\ audioKeeps

AudioSpurious ==
  /\ Running
  /\ audio_pc = "get_wait"
  /\ audio_pc' = "get"
  /\ UNCHANGED <<mixer_lock, len, apkt, apkt_frames, audio_buf, audioq, freed>>
  /\ audioKeeps

audio_callback ==
  \/ MixAudio \/ CallbackReturns \/ DecodeAudio \/ FreeAudioPacket
  \/ AudioGet \/ AudioLook

----------------------------------------------------------------------------

Next ==
  \/ sdl_refresh_timer_cb \/ UserQuit
  \/ main \/ demux_thread
  \/ decode_video_thread \/ VideoSpurious
  \/ AudioRun \/ audio_callback \/ AudioSpurious

Spec == Init /\ [][Next]_vars

(* Threads keep running.  SDL's audio thread gives mixer_lock back between *)
(* two callbacks and sleeps while the block is played, so a thread that    *)
(* asks for the lock again and again gets it.  Nobody has to quit, and a   *)
(* wait never has to end by itself.                                        *)
Fairness ==
  /\ WF_vars(sdl_refresh_timer_cb)
  /\ WF_vars(main)
  /\ SF_vars(CloseAudioLock)
  /\ WF_vars(demux_thread)
  /\ SF_vars(UnpauseAudio)
  /\ WF_vars(decode_video_thread)
  /\ WF_vars(AudioRun)
  /\ WF_vars(audio_callback)

FairSpec == Spec /\ Fairness

----------------------------------------------------------------------------
(* Properties *)

GetPcs == {"get", "look", "get_wait"}

(* The refresh timer is a chain: each refresh event arms exactly one timer *)
(* on every path through video_refresh_timer.  Until the player quits      *)
(* there is always exactly one refresh on its way: the picture never       *)
(* freezes for want of one and refreshes never pile up.                    *)
RefreshChain ==
  main_pc \in {"events", "refresh", "display", "release"} =>
    timers + Cardinality({i \in 1 .. Len(events) : events[i] = "refresh"})
      + (IF main_pc = "refresh" THEN 1 ELSE 0) = 1

(* audio_callback uses audio_ctx, audio_swr_ctx and audioq, which          *)
(* stream_component_open sets long after SDL_OpenAudio has started the     *)
(* audio thread: the callback never runs before they are set.              *)
CallbackReady == audio_pc \in {"callback"} \cup GetPcs => audio_st

(* When the main thread shows a picture, the texture exists or can be      *)
(* created and get_audio_clock finds audio_ctx (line 209), although the    *)
(* demux thread sets all of these without a lock.                          *)
DisplayReady ==
  /\ main_pc = "display" => audio_st /\ video_st /\ screen /\ pictq # <<>>
  /\ main_pc = "release" => texture

(* demux_thread tests the queue sizes without their mutexes, then reads a  *)
(* packet and puts it: a queue exceeds its limit by one packet at most.    *)
QueueBound ==
  /\ Len(audioq) <= MAX_AUDIOQ_SIZE + 1
  /\ Len(videoq) <= MAX_VIDEOQ_SIZE + 1

(* Every packet read is in one place: in its queue, with the thread that   *)
(* took it, freed, or lost by a failed put.  A packet in use is not freed, *)
(* and the only packet left over at the end is the one line 667 drops.     *)
OneOwner ==
  LET queued == ToSet(audioq) \cup ToSet(videoq)
      held   == {vpkt, apkt} \ {0}
  IN  /\ queued \cup held \cup freed \cup lost = 1 .. nread
      /\ Cardinality(queued) + Cardinality(held) + Cardinality(freed)
           + Cardinality(lost) = nread
      /\ vpkt = apkt => vpkt = 0
      /\ dec_pc \in {"none"} \cup GetPcs => vpkt = 0

(* Pictures are shown, and audio packets are played, in file order and     *)
(* none of them twice.                                                     *)
PlaysInFileOrder ==
  [][ /\ shown' # shown => shown' > shown
      /\ apkt' # apkt /\ apkt' # 0 =>
           \A p \in freed : file.packets[p] = "audio" => apkt' > p ]_vars

(* A full queue drains and the demux thread reads on: neither the audio    *)
(* callback nor the video side waits for the other.                        *)
FullQueueDrains == QueuesFull ~> (~QueuesFull \/ quit)

(* A picture the decoder has finished is shown, unless the player quits.   *)
MaxLen == CHOOSE n \in {Len(f.packets) : f \in Files} :
            \A f \in Files : Len(f.packets) <= n
EveryPictureShown ==
  \A n \in 1 .. MaxLen :
    (dec_pc = "room" /\ vpkt = n) ~> (shown >= n \/ quit)

(* After the window is closed or the streams could not be opened, main     *)
(* returns unless the audio callback waits for a packet at that time.      *)
QuitBlocksOnlyOnAudio == quit ~> (main_pc = "exited" \/ audio_pc = "get_wait")

(* Once quit is set the player ends: SDL_Quit "cleans up all initialized   *)
(* subsystems" (SDL.h, line 123) and main returns.                         *)
QuitTerminates == quit ~> (main_pc = "exited")
=============================================================================
