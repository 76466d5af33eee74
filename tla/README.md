# The FFmpeg/SDL players, in TLA+

This directory specifies the media players of the repository, those in
`coding-279/player` and the iOS player in `coding-279/kxmovie`: TLA+ modules for their queues, threads and clocks, TLC
configurations that check them on small instances, and TLAPS proofs for
instances of every size. Line numbers without a file refer to
`coding-279/player/player6.c`; VC, D and AM are `KxMovieViewController.m`,
`KxMovieDecoder.m` and `KxAudioManager.m` of `coding-279/kxmovie/kxmovie`.

## 1. Inventory

The repository holds third-party libraries (FFmpeg 4.3.1, SDL 2.0.12, x264,
lame, fdk-aac), scripts that build them for Android, and `coding-279`, the
sources of a course on FFmpeg and SDL. `coding-279` is the repository's own code.

| Part | State | Operations | What is hard about it |
|---|---|---|---|
| **player6.c**, packet queue (37-44, 134-200) | linked list, `nb_packets`, `size`, mutex, condition | `packet_queue_put` (demux thread), `packet_queue_get` (audio callback, decoder) | lost wakeups, list corruption, `quit` read without the mutex |
| player6.c, picture queue (46-51, 466-617) | ring of `VideoPicture`, size, two indices, mutex, condition | `queue_picture`, `alloc_picture` (decoder); `video_refresh_timer`, `video_display` (main) | size test, slots and indices are used without the lock |
| player6.c, threads (372-417, 638-981) | `VideoState`, SDL events, timer, audio device | `main`, `demux_thread`, `stream_component_open`, `decode_video_thread`, `audio_callback` | five threads, start-up order, failures half way through, quitting |
| player6.c, clocks (202-300, 477-514, 619-636) | `frame_timer`, `frame_last_*`, `video_clock`, `audio_diff_*` | `synchronize_video`, `video_refresh_timer`, `synchronize_audio` | bad time stamps, corrections that pile up or never converge |
| **pcm_player.c** | `audio_buf`, `audio_pos`, `buffer_len` | `main`, `read_audio_data` | shared without a lock |
| **yuv_player.c** | block buffer with three pointers, `thread_exit` | `main`, `refresh_video_timer` | buffer arithmetic at block, frame and file ends; the exit handshake |
| player2.c - player5.c | earlier lessons of the same player | as player6 | fewer threads, no clocks; player5 differs at quit |
| **KxMovie** (iOS), controller (VC) | `playing`, `decoding`, `_buffered`, `_interrupted`, frame arrays, `_bufferedDuration`, `_moviePosition`, `gHistory` | play, pause, seek, tick, appear, disappear, memory warning (main); decode and seek blocks (`_dispatchQueue`); `audioCallbackFillData` (audio thread) | three threads, flags without a lock, work that ends after the view has gone |
| KxMovie, decoder (D) | demuxer position, `_isEOF`, `_position`, streams | `openFile`, `closeFile`, `setPosition`, `decodeFrames` | used by main and by the queue |
| KxMovie, audio manager (AM) | `_playing`, `outputBlock`, `playAfterSessionEndInterruption` | play, pause, interruption, render callback | the callback against everything else |
| FFPlayerDemo (Android), ff_filter, the command line tools | locals of one function | open, loop over packets, close | error paths; time stamp arithmetic |

How the parts of player6.c work together:

```
 demux_thread --put--> audioq --get--> audio_callback (SDL audio thread, mixer_lock held)
      |
      +-------put--> videoq --get--> decode_video_thread --queue_picture--> pictq
                                                                             |
 SDL timer --FF_REFRESH_EVENT--> main: video_refresh_timer <-----------------+
     ^                                   |
     +-----------schedule_refresh--------+
 window --SDL_QUIT--> main: quit = 1, SDL_Quit     demux_thread --FF_QUIT_EVENT--> main
```

And those of KxMovie:

```
 user, UIKit --> main: play, pause, setMoviePosition ..., tick <--dispatch_after--+
                  |  ^                                   |                       |
   asyncDecode-   |  | dispatch_async(main): play,       +-----------------------+
   Frames, update-|  | setMoviePositionFromDecoder
   Position       v  |
             _dispatchQueue: decodeFrames, addFrames --> _videoFrames --> main: presentFrame
                                                    \--> _audioFrames --> audio callback
```

What makes each part correct: the packet queue hands every packet over once and
in order and wakes whoever waits for it; the picture queue shows every picture
once and in order and keeps the writer out of the slot on the screen; the
threads never use a field before it is set, never starve each other and end when
asked; the clocks keep the delays sane and bring pictures and sound together;
the two small players play the whole file, in order, and end. KxMovie keeps its tick
alive while it plays, decodes in one block at a time, is silent when its view is hidden,
knows how much it has buffered, plays forward except for seeks, begins whichever of view
and decoder comes first, and ends. The hazards of the code, each at its line, are in `PROJECT.json`.

## 2. Modules

| Module | Models | State and steps |
|---|---|---|
| `PacketQueue` | 134-200 | The variables are the fields of `PacketQueue`, the `next` field of every node and one program counter per thread. Every statement group under the mutex is a step, so a lock that is missing shows. `chain` is a history variable: the packets linked and not yet taken. |
| `PacketFifo` | what the packet queue promises | A sequence with atomic put and get, `-1` only after quit. |
| `PictureQueue` | 466-617 | The ring; the decoder's and main's accesses to slot, index and size are separate steps because the code makes them without the lock. `decoded` and `shown` number the pictures. |
| `BoundedBuffer` | what the picture queue promises | A sequence of at most `Capacity` pictures. |
| `Player` | 309-417, 472-526, 638-981 | All five threads. The queues appear at the level of `PacketFifo` and `BoundedBuffer`; a get still tests `quit` and looks at the queue in two steps. The audio thread and the closing of its device are `SDL_RunAudio` and `close_audio_device` of the SDL in this repository (`SDL_audio.c`); SDL's event queue and one-shot timers are modelled from their use (external). |
| `AVSync` | 472-530, 619-636, 777-784 | Dates of frames, delays, `frame_timer`, the armed refresh; time stamps and clock readings are arbitrary inputs. |
| `AVSyncSteady` | the same, with `get_master_clock` (202-237) | `AVSync` on an undisturbed machine: regular frames, prompt decoder, a sound clock that runs at real time with one buffer of jitter; one disturbance. How far the frames are apart (`Spacing`) and what line 631 adds for a frame (`FrameDelay`, the codec's `time_base`) are two constants: `libavcodec/avcodec.h` (631-656) has half a frame for H.264 and MPEG-2 and 0/1 as the default. |
| `AudioSync` | 239-300 | `synchronize_audio`, one action per branch. |
| `PcmPlayer` | `pcm_player.c` | main and the callback; every access to a shared variable is a step (line 83 reads two, in either order), `+=` and `-=` are a load and a store, sizes wrap. |
| `YuvPlayer` | `yuv_player.c` | A byte is its offset in the file; the buffer, its pointers and the events are modelled exactly, pixels are not. |
| `KxMovie` | VC 360-710, 815-1101, 1139-1197, 1386-1457; D 446-476, 546-554, 718-766, 1357-1512; AM 304-315, 432-453, 481-499 | Main, the serial queue and the audio thread. `main`, `qpc` and `apc` say where each is; a turn of main is split where another thread can tell (`freeBufferedFrames` in three, `tick` in two), the unlocked `+=` and `-=` on `_bufferedDuration` are a load and a store, and `@synchronized(_audioFrames)` is the guard that keeps main, queue and callback apart. `ticks`, `delayed`, `sent` and `queue` are the blocks dispatched and not yet run. |
| `MC*` | | Values of the constants for TLC. |
| `*Proofs` | | Theorems and proofs, one module per component. |
| `SetInduction` | | Lemmas on induction and recursion that the proofs share. |

Definitions whose comment starts with "Mutant:" are not part of the specifications.
Each is the plausible mistake by which one property was shown to be sensitive to
the code; `PROJECT.json` says which definition it replaces.

Abstractions. A packet is its position in the file (its size matters only in
`PacketQueue`); a picture is its number; codecs, pixel formats, window geometry and log output
are left out. `Player` counts queue limits in packets. The clocks count whole ticks, so
the rounding to milliseconds of line 514 has no effect there, and time stamps are not negative. A wait may always
end spuriously, as POSIX allows. In `PictureQueue` `avpicture_alloc` succeeds (554-557), so a slot that has
been allocated has a `bmp` (598); in `Player` every packet holds at least one frame (353, 364: none of size 0).

In `KxMovie` a frame is the packet it came from and the number of seeks before it; every packet
of sound lasts one unit of time and decodes to one frame. Pictures have position 0, because the call that would set
`_videoTimeBase` is commented out (D 858), and for the same reason one of two durations. If the packet
has one, it becomes 0 (D 1176). If it has none (`movie.undated`), it becomes `1.0 / _fps` with `_fps` 0, which is
infinite (D 1186). `_bufferedDuration` is therefore a finite part and `endless`, which says whether the double is
finite, an infinity or no number, with the comparisons such a value gives (VC 985, 1056, 1090). The tick after such a
picture is armed with an infinite interval (VC 1096-1098). Its conversion to an integer is undefined in C; the
two outcomes are those of the builds: never (ARM saturates; `asleep`) and at once (x86, the simulator).
The reset of VC 1456 can fall inside a `+=` of the pictures: then the infinity stays.

The file is local, without tweaked parameters. Timers may be early or late, so the
wall-clock correction of the tick (VC 1108-1137) has no effect and is left out. A callback
plays one whole frame: `_currentAudioFrame`, partial frames and the copy outside the lock (VC 884-899) are left out, and
the test of `_buffered` is part of the step that takes the frame. The build is a release build (`NSAssert` is off), the audio unit starts and stops when asked
(its failures, AM 436 and 445-448, are left out), a
controller outlives its blocks, and `closeFile` is one step (it is caught when the queue decodes
afterwards). The user acts only while the view is shown; memory warnings and interruptions also arrive while it is
hidden, but not before it has appeared or before there is a decoder. Three mistakes of use end a
behaviour (`crashed`): decoding with a decoder that main has closed, hiding the view after
the path is gone, and a seek before there is a queue.

## 3. Runs

| Run | Instance | Shows |
|---|---|---|
| `packet_queue` | two producers, two consumers, two packets of sizes 1 and 2 | List well formed, one owner per packet, exact counters, no lost wakeup, implements `PacketFifo`; a parked consumer is served; with failing allocations, spurious wakeups, blocking and non-blocking gets and quit at any step. Two of each is enough for every race of like and unlike threads; longer lists are covered by the proofs. |
| `picture_queue` | ring of 3, six pictures, two picture sizes | The ring wraps twice; no slot is written while shown; order; implements `BoundedBuffer`; every decoded picture is shown unless the player quits. The ring of one slot that line 33 configures is in `player`. |
| `player` | four files: video first, audio first with a packet of another stream, either stream missing; limits so small that one packet (sound) or two (pictures) fill a queue, packets of two frames, a ring of one slot | One refresh is always on its way; no field is used before it is set; queue limits are passed by one packet at most; every packet has one owner; playing order. Full queues drain, finished pictures are shown, after quit main returns unless the audio callback is waiting. The instance is small because liveness is checked on it; the six safety properties are proved for all files and limits (section 4). |
| `player_quit` | the same | **Violated**: see section 6. |
| `av_sync` | five time stamps, seven clock readings around the thresholds, both sync types that player6.c names on line 35 | Delays stay in (0, 1 s), `frame_timer` is never ahead of the next refresh, no refresh is further away than twice the last delay. |
| `av_sync_steady` | ticks of 10 ms, 25 frames a second, a `time_base` of half a frame, of two frames in a row at least one with a time stamp, offsets of up to 100 ms, a stall of 30 or 80 ms of main at any time, 10 ms jitter | Twenty-two pictures after a disturbance every picture is within `Tolerance` of the sound at its place in the stream: one frame, the jitter, and the error of the prediction (`MaxUnstamped * (Spacing - FrameDelay)`). `DatesInStep`: every frame is dated with the last stamp and one `time_base` for every frame since, whichever frames carry a stamp. With twenty pictures this does not hold: `frame_timer` keeps the debt of the stall, the pictures overtake the sound and are then held back. Longer runs without a stamp drift further and settle later (two in a row: 28 pictures). |
| `audio_sync_adds` | count of 3 instead of 20, blocks of up to 30 samples | **Violated**: section 6. |
| `pcm_player` | blocks of 6 bytes, a file of 13, requests of 2 | No use after free; the player ends, whichever of the two reads of line 83 comes first and whatever changes before line 87, unless a race has already broken the shared variables. |
| `pcm_player_torn` | the same | **Violated**: section 6. |
| `yuv_player` | blocks of 7 bytes, frames of 3, eight file sizes around the block and frame boundaries, two user events, backlog of 3 events | Every whole frame exact and in order, safe buffer arithmetic, nothing after the end, the player ends. The `BLOCK_SIZE >= 2 * yuv_frame_len` that the assumption asks for holds in the code (4096000 and 335616). |
| `kx_movie` | movies of two or three packets with sound, with pictures, with both, and with pictures that have no duration (all of a web cam, the last one of a talk); scripts of one to three events (touches, seeks, memory warnings, interruptions, hide and show, and mixtures, a warning while hidden among them), a history to resume from; audio-only minimum above the maximum, as in the code (2.0 and 0.4 s) | `TickAlive`, `OneDecode`, `HiddenIsSilent`, `FreesInSilence`, `DurationExact`, `LeftoverBound`, `InOrder`; `StartsPlaying`: whichever of decoder and view is first; `PlaybackEnds`: left alone the player comes to rest, in one of the states the property names. Three packets are two calls of `decodeFrames` and an end of file; two events are enough for a seek or a decode block to be overtaken by a hide, a warning, a touch or another seek. A pause and two seeks are needed to see more than one call of `decodeFrames` left over: every seek block that still waits in the queue decodes one frame (VC 994) after the buffer was emptied. |
| `kx_warning` | the movie of sound, one memory warning | **Violated**: section 6. |

Bounds are constants: `MaxPictures`, `MaxTime`, `MaxStalls`, `MaxUnstamped`, `OpenBy`, `MaxBacklog`,
`MaxUserEvents`, `Viewings`, the files and the packets. Deadlock is not checked where
the model may stop for good: a player whose main has returned, a decoder left parked
after quit, a model whose bounded clock or supply is used up.

### Fairness

Threads that can run do run (weak fairness per thread): they are kernel threads and
nothing in the code blocks outside the modelled waits. Mutexes that become free again and again
are obtained in the end (strong fairness): every holder releases them after a few
statements, and SDL's audio thread sleeps between callbacks. The user never has to
quit, a put may always fail, and no wait ever has to end without its signal. In `PcmPlayer` and
`YuvPlayer` fairness is weak for the two threads. In `KxMovie` it is weak for main,
queue and audio thread, and strong for the blocks that come back to main and the delayed
seek: the main queue is first in, first out, so ticks that come again and again do not
keep them out. The view does appear once; no other event has to happen.

## 4. Proofs

Proved by TLAPS, for every value of the constants the `ASSUME`s allow:

* `PacketQueueProofs`, any number of threads and packets: `TypeCorrect`,
  `MutualExclusion`, `ListSafe`, `OneOwner`, `NoWakeupLost`, `CountersAreExact`, and
  `ImplementsFifo` (`Spec => FifoSpec`). `TypeOK` alone is not inductive: that `put_link`
  writes to a real node needs `Owned`, that two puts do not link at once needs `MutexInv`.
  `IInv` joins them with `PcInv` (each thread in its own function), `LateInv` (a get that
  reached the list was called before quit, which the refinement needs for its `-1`)
  and `NbInv` (`nb_packets` up to the update the holder of the mutex still owes). Beside it,
  `WakeInv` adds to `NoLostWakeup` that only finitely many threads are inside a call, so
  the theorem needs no finite set of threads; `BytesInv` is `NbInv` for `size`.
* `SetInduction`: induction over the naturals with a set as the hypothesis, and existence and
  uniqueness of functions defined by recursion, without operator parameters; also that a set of
  naturals has a smallest element. `BytesInv` rests on it:
  the sum of the sizes is a recursive function, and what an append and a removal at the front do to it
  is proved by induction (`BytesStep`, `BytesAgree`, `BytesShift`). So does what is proved of
  `KxMovie`'s filters.
* `PictureQueueProofs`, any ring size and number of pictures: `TypeCorrect`,
  `SlotsApart`, `DisplayOrder`, `WakeupsKept`, `ImplementsBuffer`. The key is `RingInv`:
  the distance of the two indices is `pictq_size` plus the picture the decoder has not
  counted yet minus the one main has not discounted yet. With `RoomInv` it puts the two
  threads in different slots; `ContentInv` and `FrameInv` say which picture each slot holds.
* `AVSyncProofs`, any thresholds, time stamps and clock readings: `DelayAlwaysSane`,
  `TimerNeverAhead`, `SleepAlwaysBounded`. `SleepBounded` is not inductive alone: a
  refresh that is due must find `frame_timer` in the past, which is `TimerNotAhead`. And of
  `AVSyncSteady`, for every distance of the frames, `time_base`, offset, stall and jitter, `FramesDatedInPlace`: `SteadyInv`
  adds to `DatesInStep` what `video_clock` predicts (the last stamp and one `time_base` for every frame since) and that
  `frame_last_pts` is the date of the last picture shown. `ExactTimeBase` is the special case that a `time_base` equal to the
  distance makes every date exact.
* `KxMovieProofs`, all movies, limits and event scripts: `ClockTicks`,
  `SilentWhenHidden`, `SamplesFreedInSilence`, `OneDecodeBlock`, `PlaysForward`, `DurationIsExact`
  and `LeftoversBounded`. None of them is
  inductive. `IInv` adds why the first four hold: the callback has a block only while the movie
  plays (`SilenceInv`), nothing has happened until the view has appeared (`LoadedInv`), a hidden view is
  interrupted and a movie that plays has a decoder (`ViewInv`), a seek that waits for its 0.1 s or empties the
  buffers has stopped the movie unless play was called meanwhile (`SeekInv`), and a
  running block is the first of the queue (`QueueInv`). One lemma per part, one step per action.
  The other three are about the frames and rest on `FrameInv`, whose parts are `TypeInv`; `BatchInv`
  (the frames of the running `decodeFrames` are in order, of the last seek and not ahead of the demuxer);
  `OrderInv` (for pictures and for sound: last presented, array and batch form one
  increasing sequence, ordered by seek and packet, which neither `freeBufferedFrames` nor a
  seek that leaves the demuxer where it is can break); `DurationInv` (the two updates of
  `_bufferedDuration` exclude each other, and what one has loaded is current until a reset
  has raced with it); and `LeftInv` (while a seek that has emptied the buffer waits for the demuxer nothing
  plays, so the decode block that was running adds one batch to an empty array, and each seek
  block one frame). What `decodeFrames` reads and `addFrames` takes are filters,
  written as recursive functions; that they keep the order, invent nothing and return at
  most one frame more than asked for is proved by induction (`PickedStep`, `PickedFrom`, `PickedSorted`,
  `FramesToStep`, `ReadsBatch`).

  The proof of `LeftoversBounded` corrected the property: an earlier form, at most `CHUNK + 1` frames
  in all, was true of the scripts checked and could not be proved, because two seeks of a paused
  movie leave one frame more.
* `PlayerProofs`, all files and limits: `TypeCorrect`, `CallbackReadyHolds`, `DisplayReadyHolds`,
  `RefreshChainHolds`, `QueueBoundHolds`, `OneOwnerHolds`, `PlaysInFileOrderHolds` and the
  refinement `PicturesAreBuffered`. The five threads rely on each other, so the invariants are
  layered, each inductive with the ones before it: `SetupInv` (what `demux_thread` has set
  when the device plays, the decoder runs or main shows a picture; this is what the two Ready
  properties need), `ChainInv` (the one refresh), `QueueInv` (a queue is at its limit or
  below it when the demuxer is about to read), `OwnerInv` and `PictureInv`. `OwnerInv` says
  for sound and for pictures the same thing, `Lane`: what is freed comes before what is held, that before what
  is queued, the queue is increasing and ends before what is unread. `OneOwner` and the file order
  of both streams follow from it. `PicturesAreBuffered` shows that the sequence `pictq` with
  which `Player` stands in for the ring is the same `BoundedBuffer` that `PictureQueue` implements:
  `RoomInv` says that the room the decoder has seen is not taken away before it fills it.
* `PcmPlayerProofs`, all sizes: `NoUseAfterFreeHolds`, by `DeviceInv` (where main is when the
  device is closed).
* `YuvPlayerProofs`, all block, frame and file sizes: `BufferSafeHolds`, `NothingBeyondEndHolds`,
  `FramesExactHolds`. `BytesInv` says which byte of the file every place of the buffer holds and ties
  `video_pos`, `video_end` and the position in the file to the number of frames shown;
  `EndInv` says that the buffer runs short only once the file has ended; `FrameInv` is
  `FramesExact` without its division.

`TypeOK` of `PacketQueue`, `PictureQueue`, `AVSync` and `Player`, `MutexInv` of `PacketQueue` and `PicturesAreBuffered`
are proved and not also run.

A note on the prover. TLAPS 1.4.5 tells its SMT solver of every value, sequence or not, that its domain
is `1 .. Len(v)`. A step that mentions `Len` next to a function with another interval as
its domain, such as `0 .. Len(s)`, can be proved from that alone. No proof here depends
on it: `BytesOf` and `Picked` are stated over `0 .. n`, apart from sequences, and all eight modules were also proved with
that axiom cut down to the half that is true (a value with domain `1 .. n` has length `n`).

Only model-checked: all liveness properties and everything that needs fairness;
`BackInSync` of `AVSyncSteady`, whose twenty-two pictures are a number of this instance (frame rate, `time_base`,
offsets and stalls) and no theorem about all of them; and the violated properties of section 6.
Every other invariant and action property of a passing run is also proved.

## 5. Not modelled

Reasons are in `PROJECT.json`. In short:

* The libraries (FFmpeg, SDL, x264, lame, fdk-aac) are third-party code and make up nearly
  all lines of the repository, two million against the few thousand of
  `coding-279`; they appear through their use. The share of lines that is modelled is therefore
  tiny, although the repository's own concurrent programs are.
* player2 to player5 are earlier states of player6.c with fewer threads or no clocks: their packet queue is
  `PacketQueue`'s and their interleavings are among `Player`'s, except that player5 signals at quit.
* The command line tools, the filter example and the Android demo are one sequential loop each,
  around library calls, and keep no state between them.
* Of KxMovie: HUD, gestures, the info table (its choice of another stream
  included), subtitles, artwork, drawing, audio session set-up, sample and pixel formats.
* SDL's event queue is not driven to its limit of 65535 events. The doubles of the clocks are ticks.

## 6. Findings

* **Quitting can hang** (`player_quit`). If `audio_callback` waits for a packet on an empty
  `audioq` when the user quits, line 965 sets `quit` without a signal, the audio thread
  keeps SDL's device lock, and `SDL_Quit` on line 966 waits for it for ever. `player5.c`
  (724-725) signals both conditions at quit. `player` shows that this is the only thing
  that keeps main from returning.
* **synchronize_audio never adds samples** (`audio_sync_adds`). `(100 + 10) / 100` on line
  266 is 1 and `(100 - 10) / 100` on line 265 is 0. Computing the percentage exactly instead is not
  a complete repair: the limit is then no longer a whole number of samples.
* **pcm_player's callback can leave the buffer** (`pcm_player_torn`): `buffer_len` (77) and
  `audio_pos` (80) are set apart, without `SDL_LockAudio`.

* **A memory warning can stop a movie for good** (`kx_warning`). A decode block that starts while `playing` is off returns at VC 1022
  and leaves `decoding` set; afterwards `asyncDecodeFrames` always returns at VC 1008. The turn of
  `didReceiveMemoryWarning` that pauses and plays again is enough, although its log line VC 374 says "disable buffering and
  continue playing"; a pause and play, or a seek, between the dispatch and the start of the block does the same. `PlaybackEnds` of `kx_movie` has the exception
  `Stuck` for it.

Seen while modelling, without a property of their own: frames without a time stamp are dated with the codec's `time_base`
(line 631), which for H.264 is half a frame, so each of them comes early by the other half until the next stamp; the wait of `pcm_player.c` line 83
compares a position that grows with a length that shrinks, ends when half of a block is
played, and the next read overwrites the other half; `avformat_open_input` failing
(820-824) leaves an empty window open; a quit that `yuv_player.c` handles before its timer
thread runs is forgotten (line 16), and the file plays to its end; an incomplete last frame is shown
with bytes of an earlier one when it was moved to the head of the buffer.

Of KxMovie, seen in behaviours of `kx_movie`:

* **Pictures without a duration last for ever** (D 1182-1187, `_fps` is never set). `_bufferedDuration` is infinite or no number
  from then on, so one such picture counts as a full buffer, and the tick after it may never come: the movie stops, still
  `playing`, until it is paused and played again (the exceptions `asleep` of `TickAlive` and `Asleep` of `PlaybackEnds`).
* **Sound beside pictures waits for ever** once it is 0.1 s into the movie, because all pictures have
  position 0 (D 858, VC 848): the exception `SoundWaits`.
* **A view shown again never plays**: `_interrupted` is set at VC 455 and the reset at VC 530
  comes after the return at VC 526.
* `_bufferedDuration` is wrong from the moment the reset of VC 1456 meets an update; `raced` marks it.
* `isEOF` is set before the last frames are in the arrays (D 1374): a tick in between ends the movie
  without them.
* Three states in which the program fails, listed under Abstractions as `crashed`.

## 7. Plan

1. Done: packet queue, picture queue, threads, clocks of player6.c; pcm_player; yuv_player; KxMovie.
2. Done: proofs of all safety properties of the packet queue, the picture queue, the threads, the
   clocks (but `BackInSync`), pcm_player, yuv_player and KxMovie.
3. If the repository grows: a change of the audio stream in KxMovie's info table (VC 1692),
   which replaces the codec context on main while the queue decodes.
