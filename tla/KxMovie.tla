------------------------------ MODULE KxMovie ------------------------------
(***************************************************************************)
(* The iOS player coding-279/kxmovie/kxmovie: KxMovieViewController.m (VC  *)
(* below) with its decoder KxMovieDecoder.m (D) and the audio unit of      *)
(* KxAudioManager.m (AM).  Three threads share the controller:             *)
(*                                                                         *)
(*   main    one turn at a time: user events, the tick timer, the delayed  *)
(*           updatePosition, blocks sent back by the queue                 *)
(*   queue   the serial _dispatchQueue: decode blocks and seek blocks      *)
(*   audio   the render callback                                           *)
(*                                                                         *)
(* playing, decoding, _buffered, _bufferedDuration and the decoder are     *)
(* used without a lock; the frame arrays are used under @synchronized.  A  *)
(* turn of main is split where another thread can tell the difference.     *)
(* Nothing is assumed about time: a timer may be early or late.            *)
(*                                                                         *)
(* A frame is the packet it was decoded from and the number of seeks done  *)
(* before.  Every packet of sound lasts one unit of time.  A picture lasts *)
(* 0 units, or for ever if its packet has no duration: _videoTimeBase and  *)
(* _fps are never set (D 858).  Objects outlive their blocks (the weak     *)
(* references of VC are not followed).                                     *)
(***************************************************************************)
EXTENDS Integers, Sequences, FiniteSets

CONSTANTS
  Viewings,           \* bound: a file, the position gHistory has for it, and
                      \* what the user and the system do, in order
  SeekTargets,        \* positions the user may ask for
  MIN_BUFFERED,       \* VC 68 and 70, LOCAL_ or NETWORK_MIN_BUFFERED_DURATION
  MAX_BUFFERED,       \* VC 69 and 71
  AUDIO_FACTOR,       \* VC 650, 10
  CHUNK,              \* VC 1014: what one call of decodeFrames should exceed
  DESYNC,             \* VC 848 and 861
  SECOND              \* VC 1391: units in a second

NoHistory == -1

ASSUME KxAssumption ==
  /\ \A v \in Viewings :
       /\ v.movie.streams \subseteq {"audio", "video"}
       /\ v.movie.streams # {}
       /\ v.movie.packets \in Seq(v.movie.streams \cup {"other"})
       /\ v.movie.undated \subseteq {i \in 1 .. Len(v.movie.packets) :
                                       v.movie.packets[i] = "video"}
       /\ v.history \in Nat \cup {NoHistory}
       /\ v.script \in Seq({"touch", "seek", "warn", "interrupt", "hide", "show"})
  /\ SeekTargets \subseteq Int
  /\ {MIN_BUFFERED, MAX_BUFFERED, AUDIO_FACTOR, CHUNK, DESYNC, SECOND}
       \subseteq Nat

VARIABLES
  movie,              \* [streams, packets, undated: those without a duration]
  (* VC *)
  playing, decoding, interrupted,
  buffered,           \* _buffered: waiting for frames
  minBuffered, maxBuffered,
  videoFrames, audioFrames, moviePosition,
  bufferedDuration,   \* its finite part
  endless,            \* and its other one: "no", "inf", "minus" or "nan"
  history,            \* gHistory[path]
  view,               \* "loaded", "shown" or "hidden"
  animating,          \* the activity indicator runs because there is no decoder
  (* the main queue *)
  main,               \* where main is in its turn, "idle" between turns
  todo,               \* what follows freeBufferedFrames in this turn
  ticks,              \* armed ticks
  endlessTick,        \* the interval tick has computed is infinite
  asleep,             \* the last tick armed never comes
  delayed,            \* updatePosition calls 0.1 s away
  sent,               \* blocks from the queue: the playMode of each
  (* the dispatch queue *)
  queue,              \* blocks; the first one is running unless qpc is "idle"
  qpc,
  batch,              \* frames of the running decodeFrames
  qload,              \* _bufferedDuration as loaded by its +=
  (* D *)
  opened,             \* "opening", "open", "failed" or "closed"
  nread,              \* packets before the demuxer's position
  isEOF, position,
  (* AM and the audio thread *)
  unit,               \* _playing: the audio unit runs
  output,             \* outputBlock is set
  resume,             \* playAfterSessionEndInterruption
  apc, aload,
  (* bounds and history *)
  script,             \* user events to come
  seeks,              \* setPosition calls so far
  shown, heard,       \* the frame presented and the frame played last
  started,            \* play has succeeded
  impatient,          \* it did while a seek was under way
  raced,              \* _bufferedDuration was reset beside an update
  warned,             \* a memory warning has disabled the buffering
  crashed

ctlVars    == <<playing, decoding, interrupted, buffered, started, impatient>>
limitVars  == <<minBuffered, maxBuffered, warned>>
frameVars  == <<videoFrames, audioFrames, bufferedDuration, endless, raced>>
viewVars   == <<history, view, animating>>
tickVars   == <<ticks, endlessTick, asleep>>
timerVars  == <<tickVars, delayed, sent>>
queueVars  == <<queue, qpc, batch, qload>>
decVars    == <<opened, nread, isEOF, position, seeks>>
unitVars   == <<unit, output, resume>>
audioVars  == <<apc, aload, heard>>
vars == <<movie, ctlVars, limitVars, frameVars, moviePosition, viewVars, main,
          todo, timerVars, queueVars, decVars, unitVars, audioVars, script,
          shown, crashed>>

HasVideo == "video" \in movie.streams
HasAudio == "audio" \in movie.streams
ValidVideo == opened = "open" /\ HasVideo
ValidAudio == opened = "open" /\ HasAudio

(* D 858: the call that would set _videoTimeBase is commented out. *)
VideoTimeBase == 0

(* Those of the first n frames that come from packets of these types. *)
Picked(types, frames, n) ==
  LET picked[i \in 0 .. n] ==
        IF i = 0 THEN <<>>
        ELSE IF movie.packets[frames[i].pkt] \in types
             THEN Append(picked[i - 1], frames[i])
             ELSE picked[i - 1]
  IN  picked[n]
Only(type, frames) == Picked({type}, frames, Len(frames))

(* D 1170 and 1264-1274. *)
PositionOf(f) ==
  (f.pkt - 1) * (IF movie.packets[f.pkt] = "video" THEN VideoTimeBase ELSE 1)

(* What frames add to decodedDuration (D 1413, 1452) and to                *)
(* _bufferedDuration (VC 949, 962): the video frames if there are any.     *)
(* D 1173-1187: the finite part, and whether a 1.0 / _fps is among them.   *)
Lasting(frames) ==
  IF HasVideo THEN Len(Only("video", frames)) * VideoTimeBase
              ELSE Len(Only("audio", frames))

Undated(f) == f.pkt \in movie.undated
Endless(frames) == HasVideo /\ \E i \in 1 .. Len(frames) : Undated(frames[i])

(* An infinity is added to a double or subtracted from it; and how it      *)
(* compares: what is not a number is neither over nor under a limit.       *)
PlusInf(d)  == IF d \in {"no", "inf"} THEN "inf" ELSE "nan"
MinusInf(d) == IF d \in {"no", "minus"} THEN "minus" ELSE "nan"
BufferedOver(limit)  == endless = "inf" \/ (endless = "no" /\ bufferedDuration > limit)
BufferedUnder(limit) == endless = "minus" \/ (endless = "no" /\ bufferedDuration < limit)

NoFrame == [pkt |-> 0, seek |-> 0]
NoTodo  == [op |-> "none", pos |-> 0, playMode |-> FALSE]
DecodeBlock == [op |-> "decode", pos |-> 0, playMode |-> TRUE]
SeekBlock(pos, playMode) == [op |-> "seek", pos |-> pos, playMode |-> playMode]

Init ==
  /\ \E v \in Viewings :
       movie = v.movie /\ history = v.history /\ script = v.script
  /\ playing = FALSE /\ decoding = FALSE /\ interrupted = FALSE
  /\ buffered = FALSE
  /\ minBuffered = 0 /\ maxBuffered = 0
  /\ videoFrames = <<>> /\ audioFrames = <<>>
  /\ bufferedDuration = 0 /\ endless = "no" /\ moviePosition = 0
  /\ view = "loaded" /\ animating = FALSE
  /\ main = "idle" /\ todo = NoTodo
  /\ ticks = 0 /\ endlessTick = FALSE /\ asleep = FALSE
  /\ delayed = <<>> /\ sent = <<>>
  /\ queue = <<>> /\ qpc = "idle" /\ batch = <<>> /\ qload = 0
  /\ opened = "opening" /\ nread = 0 /\ isEOF = FALSE /\ position = 0
  /\ unit = FALSE /\ output = FALSE /\ resume = FALSE
  /\ apc = "idle" /\ aload = 0
  /\ seeks = 0
  /\ shown = NoFrame /\ heard = NoFrame
  /\ started = FALSE /\ impatient = FALSE /\ raced = FALSE
  /\ warned = FALSE /\ crashed = FALSE

-----------------------------------------------------------------------------
(* Parts of a turn of main *)

(* AM 432-453.  External: the unit starts and stops when asked, and        *)
(* AudioOutputUnitStop returns when no callback is running.                *)
AudioPlay  == unit' = TRUE
AudioPause == unit' = FALSE /\ apc = "idle"

(* VC 915-938 *)
enableAudio(on) ==
  /\ IF on /\ ValidAudio THEN output' = TRUE /\ AudioPlay
                         ELSE output' = FALSE /\ AudioPause
  /\ UNCHANGED resume

(* Mutant: the flag is set but not looked at. *)
asyncDecodeFramesAlways ==
  /\ queue' = Append(queue, DecodeBlock)
  /\ decoding' = TRUE

(* VC 1006-1017 *)
asyncDecodeFrames ==
  /\ queue' = IF decoding THEN queue ELSE Append(queue, DecodeBlock)
  /\ decoding' = TRUE

SeekUnderWay == delayed # <<>> \/ \E i \in 1 .. Len(queue) : queue[i].op = "seek"

(* Mutant: a play that forgets _interrupted. *)
playThough ==
  IF playing \/ ~(ValidVideo \/ ValidAudio)
  THEN UNCHANGED <<playing, decoding, queue, tickVars, unitVars, started, impatient>>
  ELSE /\ playing' = TRUE
       /\ asyncDecodeFrames
       /\ ticks' = ticks + 1 /\ asleep' = FALSE /\ UNCHANGED endlessTick
       /\ IF ValidAudio THEN enableAudio(TRUE) ELSE UNCHANGED unitVars
       /\ started' = TRUE
       /\ impatient' = (impatient \/ SeekUnderWay)

(* VC 515-551 *)
play ==
  IF playing \/ interrupted \/ ~(ValidVideo \/ ValidAudio)
  THEN UNCHANGED <<playing, decoding, queue, tickVars, unitVars, started, impatient>>
  ELSE /\ playing' = TRUE
       /\ asyncDecodeFrames
       /\ ticks' = ticks + 1 /\ asleep' = FALSE /\ UNCHANGED endlessTick
       /\ IF ValidAudio THEN enableAudio(TRUE) ELSE UNCHANGED unitVars
       /\ started' = TRUE
       /\ impatient' = (impatient \/ SeekUnderWay)

(* VC 553-563 *)
pause ==
  /\ playing' = FALSE
  /\ IF playing THEN enableAudio(FALSE) ELSE UNCHANGED unitVars

(* The queue is inside @synchronized(_audioFrames) of addFrames. *)
Locked == qpc = "store"

(* VC 1139-1197: the first video frame, if there is one, is presented. *)
presentFrame(positionElse) ==
  IF ValidVideo /\ videoFrames # <<>>
  THEN /\ shown' = Head(videoFrames)
       /\ videoFrames' = Tail(videoFrames)
       /\ bufferedDuration' = bufferedDuration - VideoTimeBase
       /\ endless' = IF Undated(Head(videoFrames)) THEN MinusInf(endless) ELSE endless
       /\ moviePosition' = PositionOf(Head(videoFrames))
       /\ UNCHANGED <<audioFrames, raced>>
  ELSE moviePosition' = positionElse /\ UNCHANGED <<frameVars, shown>>

(* VC 1438-1457: the first of the three parts of freeBufferedFrames, and   *)
(* what the turn does after the last one.                                  *)
freeBufferedFrames(next) ==
  /\ videoFrames' = <<>>
  /\ main' = "free_audio"
  /\ todo' = next
  /\ UNCHANGED <<audioFrames, bufferedDuration, endless, raced>>

Smaller(a, b) == IF a < b THEN a ELSE b
Larger(a, b)  == IF a > b THEN a ELSE b

(* D 446-453; a decoder that is nil or closed has none. *)
Duration == IF opened = "open" THEN Len(movie.packets) ELSE 0

(* VC 1386-1391 *)
updatePosition(pos, playMode) ==
  freeBufferedFrames(SeekBlock(Smaller(Duration - SECOND, Larger(0, pos)), playMode))

Idle == main = "idle"
Event(event) == script # <<>> /\ Head(script) = event /\ script' = Tail(script)

-----------------------------------------------------------------------------
(* Turns of main: opening and showing the view *)

(* Mutant: a view that waits for the decoder is left waiting. *)
setMovieDecoderOnly ==
  /\ Idle
  /\ opened = "opening"
  /\ \/ /\ opened' = "open"
        /\ minBuffered' = IF HasVideo THEN MIN_BUFFERED ELSE MIN_BUFFERED * AUDIO_FACTOR
        /\ maxBuffered' = MAX_BUFFERED
     \/ /\ opened' = "failed"
        /\ UNCHANGED <<minBuffered, maxBuffered>>
  /\ animating' = FALSE
  /\ UNCHANGED <<movie, ctlVars, warned, frameVars, moviePosition, history, view,
                 main, todo, timerVars, queueVars, nread, isEOF, position, seeks,
                 unitVars, audioVars, script, shown, crashed>>

(* VC 183-195, 622-701, D 718-766: openFile has ended on a global queue. *)
setMovieDecoder ==
  /\ Idle
  /\ opened = "opening"
  /\ \/ /\ opened' = "open"
        /\ minBuffered' = IF HasVideo THEN MIN_BUFFERED ELSE MIN_BUFFERED * AUDIO_FACTOR
        /\ maxBuffered' = MAX_BUFFERED
        /\ main' = IF animating THEN "restore" ELSE "idle"
     \/ /\ opened' = "failed"
        /\ UNCHANGED <<minBuffered, maxBuffered, main>>
  /\ animating' = FALSE
  /\ UNCHANGED <<movie, ctlVars, warned, frameVars, moviePosition, history, view,
                 todo, timerVars, queueVars, nread, isEOF, position, seeks,
                 unitVars, audioVars, script, shown, crashed>>

(* VC 397-426 *)
viewDidAppear ==
  /\ Idle
  /\ \/ view = "loaded" /\ UNCHANGED script
     \/ view = "hidden" /\ Event("show")
  /\ view' = "shown"
  /\ IF opened \in {"open", "closed"}
       THEN main' = "restore" /\ UNCHANGED animating
       ELSE animating' = TRUE /\ UNCHANGED main
  /\ UNCHANGED <<movie, ctlVars, limitVars, frameVars, moviePosition, history,
                 todo, timerVars, queueVars, decVars, unitVars, audioVars,
                 shown, crashed>>

(* VC 703-710.  A closed decoder has no path to look up. *)
Remembered == history # NoHistory /\ opened = "open"
restorePlay ==
  /\ main = "restore"
  /\ IF Remembered
       THEN /\ updatePosition(history, TRUE)
            /\ UNCHANGED <<playing, decoding, queue, tickVars, unitVars, started, impatient>>
       ELSE play /\ main' = "idle" /\ UNCHANGED <<frameVars, todo>>
  /\ UNCHANGED <<movie, interrupted, buffered, limitVars, moviePosition, viewVars,
                 delayed, sent, qpc, batch, qload, decVars, audioVars, script,
                 shown, crashed>>

(* VC 429-458, for a local file.  A decoder that was closed by             *)
(* openFile:nil has no path, and gHistory takes no nil key (442, 444).     *)
viewWillDisappear ==
  /\ Idle
  /\ view = "shown"
  /\ Event("hide")
  /\ view' = "hidden"
  /\ animating' = FALSE
  /\ pause
  /\ history' = IF opened \in {"opening", "failed"} THEN history
                ELSE IF moviePosition = 0 \/ isEOF THEN NoHistory
                ELSE moviePosition
  /\ crashed' = (opened = "closed")
  /\ buffered' = FALSE
  /\ interrupted' = TRUE
  /\ UNCHANGED <<movie, decoding, started, impatient, limitVars, frameVars,
                 moviePosition, main, todo, timerVars, queueVars, decVars,
                 audioVars, shown>>

-----------------------------------------------------------------------------
(* Turns of main: the user and the system *)

(* UIKit and the audio session do not care whether the view is shown. *)
Turn(event, views) ==
  /\ Idle
  /\ view \in views
  /\ Event(event)
  /\ UNCHANGED <<movie, viewVars, sent, qpc, batch, qload, decVars, audioVars,
                 shown, crashed>>

(* VC 595-601; the info view (1464) and resigning active (468) pause, too. *)
playDidTouch ==
  /\ Turn("touch", {"shown"})
  /\ IF playing THEN pause /\ UNCHANGED <<decoding, queue, tickVars, started, impatient>>
                ELSE play
  /\ UNCHANGED <<interrupted, buffered, limitVars, frameVars, moviePosition, main,
                 todo, delayed>>

(* Mutant: the sound goes on until the seek. *)
setMoviePositionAloud(pos) ==
  /\ Turn("seek", {"shown"})
  /\ playing' = FALSE
  /\ delayed' = Append(delayed, SeekBlock(pos, playing))
  /\ UNCHANGED <<decoding, interrupted, buffered, started, impatient, limitVars,
                 frameVars, moviePosition, main, todo, tickVars, queue, unitVars>>

(* Mutant: the movie goes on until the seek. *)
setMoviePositionPlaying(pos) ==
  /\ Turn("seek", {"shown"})
  /\ enableAudio(FALSE)
  /\ delayed' = Append(delayed, SeekBlock(pos, playing))
  /\ UNCHANGED <<playing, decoding, interrupted, buffered, started, impatient,
                 limitVars, frameVars, moviePosition, main, todo, tickVars, queue>>

(* VC 565-578, from 603-618 *)
setMoviePosition(pos) ==
  /\ Turn("seek", {"shown"})
  /\ playing' = FALSE
  /\ enableAudio(FALSE)
  /\ delayed' = Append(delayed, SeekBlock(pos, playing))
  /\ UNCHANGED <<decoding, interrupted, buffered, started, impatient, limitVars,
                 frameVars, moviePosition, main, todo, tickVars, queue>>

(* VC 360-395 *)
didReceiveMemoryWarning ==
  /\ Turn("warn", {"shown", "hidden"})
  /\ opened \in {"open", "closed"}
  /\ pause
  /\ freeBufferedFrames([NoTodo EXCEPT !.op =
                           IF playing /\ maxBuffered > 0 THEN "resume" ELSE "close"])
  /\ UNCHANGED <<decoding, interrupted, buffered, started, impatient, limitVars,
                 moviePosition, tickVars, delayed, queue>>

(* AM 481-499 *)
sessionInterruptionListener ==
  /\ Turn("interrupt", {"shown", "hidden"})
  /\ \/ AudioPause /\ resume' = unit                      \* begin
     \/ resume /\ resume' = FALSE /\ AudioPlay            \* end
  /\ UNCHANGED <<ctlVars, limitVars, frameVars, moviePosition, main, todo,
                 tickVars, delayed, queue, output>>

-----------------------------------------------------------------------------
(* Turns of main: what was dispatched *)

(* VC 574-577 *)
delayedPosition ==
  /\ Idle
  /\ delayed # <<>>
  /\ delayed' = Tail(delayed)
  /\ updatePosition(Head(delayed).pos, Head(delayed).playMode)
  /\ UNCHANGED <<movie, ctlVars, limitVars, moviePosition, viewVars, tickVars, sent,
                 queueVars, decVars, unitVars, audioVars, script, shown, crashed>>

(* VC 1444-1448 *)
freeAudio ==
  /\ main = "free_audio"
  /\ ~Locked /\ apc = "idle"
  /\ audioFrames' = <<>>
  /\ main' = "free_duration"
  /\ UNCHANGED <<movie, ctlVars, limitVars, videoFrames, bufferedDuration, endless, raced,
                 moviePosition, viewVars, todo, timerVars, queueVars, decVars,
                 unitVars, audioVars, script, shown, crashed>>

(* The pictures added since this turn emptied the array (VC 948-949): the  *)
(* reset that comes now may fall between the load and the store of a +=.   *)
PicturesStoring ==
  qpc = "add_audio" /\ videoFrames # <<>> /\ Only("video", batch) # <<>>

(* VC 1456, and then the rest of updatePosition (VC 1395) or of            *)
(* didReceiveMemoryWarning: 369-374, or 379-380 and 392-393.  There is no  *)
(* queue before there is a decoder.  openFile:nil fails (D 768-799).       *)
freeDuration ==
  /\ main = "free_duration"
  /\ bufferedDuration' = 0
  /\ endless' \in {"no"} \cup (IF PicturesStoring THEN {endless} ELSE {})
  /\ raced' = (raced \/ audioFrames # <<>> \/ Locked \/ apc = "store")
  /\ main' = "idle"
  /\ todo' = NoTodo
  /\ \/ /\ todo.op = "seek"
        /\ IF opened \in {"opening", "failed"}
             THEN crashed' = TRUE /\ UNCHANGED queue
             ELSE queue' = Append(queue, todo) /\ UNCHANGED crashed
        /\ UNCHANGED <<ctlVars, limitVars, tickVars, unitVars, opened>>
     \/ /\ todo.op = "resume"
        /\ minBuffered' = 0 /\ maxBuffered' = 0 /\ warned' = TRUE
        /\ play
        /\ UNCHANGED <<interrupted, buffered, opened, crashed>>
     \/ /\ todo.op = "close"
        /\ opened' = "closed"
        /\ UNCHANGED <<ctlVars, limitVars, tickVars, queue, unitVars, crashed>>
  /\ UNCHANGED <<movie, videoFrames, audioFrames, moviePosition, viewVars, delayed,
                 sent, qpc, batch, qload, nread, isEOF, position, seeks,
                 audioVars, script, shown>>

(* VC 1405-1412 with playMode, 1423-1433 without *)
seekDone ==
  /\ Idle
  /\ sent # <<>>
  /\ sent' = Tail(sent)
  /\ IF Head(sent)
       THEN /\ moviePosition' = position
            /\ play
            /\ UNCHANGED <<frameVars, shown>>
       ELSE /\ presentFrame(position)
            /\ UNCHANGED <<playing, decoding, queue, tickVars, unitVars, started, impatient>>
  /\ UNCHANGED <<movie, interrupted, buffered, limitVars, viewVars, main, todo,
                 delayed, qpc, batch, qload, decVars, audioVars, script, crashed>>

(* VC 1054-1065 *)
tick ==
  /\ Idle
  /\ ticks > 0
  /\ ticks' = ticks - 1 /\ UNCHANGED asleep
  /\ buffered' = (buffered /\ ~(BufferedOver(minBuffered) \/ isEOF))
  /\ IF buffered' THEN UNCHANGED <<frameVars, moviePosition, shown>>
                  ELSE presentFrame(moviePosition)
  /\ endlessTick' = 
       (~buffered' /\ ValidVideo /\ videoFrames # <<>> /\ Undated(Head(videoFrames)))
  /\ main' = "tick_left"
  /\ UNCHANGED <<movie, playing, decoding, interrupted, started, impatient,
                 limitVars, viewVars, todo, delayed, sent, queueVars, decVars,
                 unitVars, audioVars, script, crashed>>

(* VC 1067-1073 *)
tickLeft ==
  /\ main = "tick_left"
  /\ main' = IF ~playing THEN "idle"
             ELSE IF (ValidVideo /\ videoFrames # <<>>) \/ (ValidAudio /\ audioFrames # <<>>)
                  THEN "tick_some" ELSE "tick_none"
  /\ UNCHANGED <<movie, ctlVars, limitVars, frameVars, moviePosition, viewVars, todo,
                 timerVars, queueVars, decVars, unitVars, audioVars, script, shown, crashed>>

tickKeeps ==
  UNCHANGED <<movie, interrupted, started, impatient, limitVars, frameVars,
              moviePosition, viewVars, todo, delayed, sent, qpc, batch, qload,
              decVars, audioVars, script, shown, crashed>>

(* VC 1075-1080: the end. *)
tickEnds ==
  /\ main = "tick_none"
  /\ isEOF
  /\ pause
  /\ main' = "idle"
  /\ UNCHANGED <<decoding, queue, buffered, tickVars>>
  /\ tickKeeps

(* VC 1096-1101.  An infinite interval is converted to an int64_t, which   *)
(* dispatch_time takes for never where the conversion saturates (ARM) and  *)
(* for the past where it gives the least integer (the simulator on x86).   *)
armTick ==
  \/ ticks' = ticks + 1 /\ asleep' = FALSE
  \/ endlessTick /\ asleep' = TRUE /\ UNCHANGED ticks

(* Mutant: no tick is armed while the player waits for frames. *)
tickAgainFilled ==
  /\ \/ main = "tick_none" /\ ~isEOF
     \/ main = "tick_some"
  /\ buffered' = (buffered \/ (main = "tick_none" /\ minBuffered > 0))
  /\ IF main = "tick_none" \/ ~BufferedOver(minBuffered)
       THEN asyncDecodeFrames
       ELSE UNCHANGED <<decoding, queue>>
  /\ IF buffered' THEN UNCHANGED <<ticks, asleep>> ELSE armTick
  /\ UNCHANGED endlessTick
  /\ main' = "idle"
  /\ UNCHANGED <<playing, unitVars>>
  /\ tickKeeps

(* Mutant: an empty buffer is no reason to decode. *)
tickAgainPatient ==
  /\ \/ main = "tick_none" /\ ~isEOF
     \/ main = "tick_some"
  /\ buffered' = (buffered \/ (main = "tick_none" /\ minBuffered > 0))
  /\ IF main = "tick_some" /\ ~BufferedOver(minBuffered)
       THEN asyncDecodeFrames
       ELSE UNCHANGED <<decoding, queue>>
  /\ armTick
  /\ UNCHANGED endlessTick
  /\ main' = "idle"
  /\ UNCHANGED <<playing, unitVars>>
  /\ tickKeeps

(* VC 1082-1095 *)
tickAgain ==
  /\ \/ main = "tick_none" /\ ~isEOF
     \/ main = "tick_some"
  /\ buffered' = (buffered \/ (main = "tick_none" /\ minBuffered > 0))
  /\ IF main = "tick_none" \/ ~BufferedOver(minBuffered)
       THEN asyncDecodeFrames
       ELSE UNCHANGED <<decoding, queue>>
  /\ armTick
  /\ UNCHANGED endlessTick
  /\ main' = "idle"
  /\ UNCHANGED <<playing, unitVars>>
  /\ tickKeeps

MainStep ==
  \/ setMovieDecoder
  \/ restorePlay
  \/ delayedPosition
  \/ freeAudio
  \/ freeDuration
  \/ seekDone
  \/ tick
  \/ tickLeft
  \/ tickEnds
  \/ tickAgain

UserStep ==
  \/ viewDidAppear
  \/ viewWillDisappear
  \/ playDidTouch
  \/ \E pos \in SeekTargets : setMoviePosition(pos)
  \/ didReceiveMemoryWarning
  \/ sessionInterruptionListener

-----------------------------------------------------------------------------
(* The dispatch queue *)

queueKeeps ==
  UNCHANGED <<movie, playing, interrupted, buffered, started, impatient, limitVars,
              moviePosition, viewVars, main, todo, tickVars, delayed, unitVars,
              audioVars, script, shown>>

(* D 1357-1361: decodeFrames returns nothing if there is no stream. *)
callDecodeFrames == qpc' = IF opened = "open" THEN "read" ELSE "finish"

(* VC 1017-1024: a decode block that finds playing off returns at once. *)
decodeStart ==
  /\ qpc = "idle"
  /\ queue # <<>>
  /\ Head(queue).op = "decode"
  /\ IF playing THEN callDecodeFrames /\ UNCHANGED queue
                ELSE queue' = Tail(queue) /\ UNCHANGED qpc
  /\ UNCHANGED <<decoding, frameVars, sent, batch, qload, decVars, crashed>>
  /\ queueKeeps

(* VC 1395-1403, 1416-1421, D 460-476.  The result of a seek is ignored,   *)
(* so the demuxer may stay where it is; with _videoTimeBase 0 the video    *)
(* stream is sent to a position that is no number.                         *)
setPosition ==
  /\ qpc = "idle"
  /\ queue # <<>>
  /\ Head(queue).op = "seek"
  /\ position' = Head(queue).pos
  /\ isEOF' = FALSE
  /\ seeks' = seeks + 1
  /\ nread' \in {nread} \cup (IF ValidAudio THEN {Larger(0, Head(queue).pos)} ELSE {})
                        \cup (IF ValidVideo THEN {0} ELSE {})
  /\ IF Head(queue).playMode THEN qpc' = "finish" ELSE callDecodeFrames
  /\ UNCHANGED <<decoding, frameVars, sent, queue, batch, qload, opened, crashed>>
  /\ queueKeeps

(* VC 994 and 1036, D 1363-1511: packets are read until their frames last  *)
(* longer than minDuration or the file ends.  isEOF is set before the      *)
(* frames are handed over.  A decoder that main has closed meanwhile is    *)
(* used after its contexts are freed.                                      *)
FramesTo(n) ==
  LET all == [i \in 1 .. n - nread |-> [pkt |-> nread + i, seek |-> seeks]]
  IN  Picked({"audio", "video"}, all, n - nread)
minDuration == IF Head(queue).op = "seek" THEN 0 ELSE CHUNK
decodeFrames ==
  /\ qpc = "read"
  /\ LET long == {n \in nread + 1 .. Len(movie.packets) :
                     Lasting(FramesTo(n)) > minDuration \/ Endless(FramesTo(n))}
         last == IF long = {} THEN Larger(nread, Len(movie.packets))
                              ELSE CHOOSE n \in long : \A k \in long : n <= k
         timed == Only(IF HasVideo THEN "video" ELSE "audio", batch')
     IN  IF opened # "open"
         THEN crashed' = TRUE /\ UNCHANGED <<qpc, batch, decVars>>
         ELSE /\ nread' = last
              /\ batch' = FramesTo(last)
              /\ isEOF' = (isEOF \/ long = {})
              /\ position' = IF timed = <<>> THEN position
                             ELSE PositionOf(timed[Len(timed)])
              /\ qpc' = IF batch' = <<>> THEN "finish"
                         ELSE IF ValidVideo THEN "add_video" ELSE "add_audio"
              /\ UNCHANGED <<opened, seeks, crashed>>
  /\ UNCHANGED <<decoding, frameVars, sent, queue, qload>>
  /\ queueKeeps

(* VC 940-951: the pictures, under their lock. *)
addPictures ==
  /\ qpc = "add_video"
  /\ videoFrames' = IF ValidVideo THEN videoFrames \o Only("video", batch) ELSE videoFrames
  /\ bufferedDuration' = bufferedDuration + (IF ValidVideo THEN Lasting(batch) ELSE 0)
  /\ endless' = IF ValidVideo /\ Endless(batch) THEN PlusInf(endless) ELSE endless
  /\ qpc' = "add_audio"
  /\ UNCHANGED <<decoding, audioFrames, raced, sent, queue, batch, qload, decVars, crashed>>
  /\ queueKeeps

(* Mutant: the new frames go to the front. *)
addSoundInFront ==
  /\ qpc = "add_audio"
  /\ apc = "idle"
  /\ audioFrames' = IF ValidAudio THEN Only("audio", batch) \o audioFrames ELSE audioFrames
  /\ qload' = bufferedDuration
  /\ qpc' = "store"
  /\ UNCHANGED <<decoding, videoFrames, bufferedDuration, endless, raced, sent, queue,
                 batch, decVars, crashed>>
  /\ queueKeeps

(* VC 953-964: the sound, under its lock, and then without pictures        *)
(* _bufferedDuration; freeBufferedFrames' reset takes no lock.             *)
addSound ==
  /\ qpc = "add_audio"
  /\ apc = "idle"
  /\ audioFrames' = IF ValidAudio THEN audioFrames \o Only("audio", batch) ELSE audioFrames
  /\ qload' = bufferedDuration
  /\ qpc' = "store"
  /\ UNCHANGED <<decoding, videoFrames, bufferedDuration, endless, raced, sent, queue,
                 batch, decVars, crashed>>
  /\ queueKeeps

(* VC 961-962 *)
addDuration ==
  /\ qpc = "store"
  /\ bufferedDuration' = IF ValidAudio /\ ~ValidVideo THEN qload + Lasting(batch)
                                                      ELSE bufferedDuration
  /\ qpc' = "more"
  /\ batch' = <<>>
  /\ qload' = 0
  /\ UNCHANGED <<decoding, videoFrames, audioFrames, endless, raced, sent, queue, decVars,
                 crashed>>
  /\ queueKeeps

(* VC 985 and 1027-1040 *)
decodeMore ==
  /\ qpc = "more"
  /\ IF Head(queue).op = "decode" /\ playing /\ BufferedUnder(maxBuffered)
       THEN callDecodeFrames
       ELSE qpc' = "finish"
  /\ UNCHANGED <<decoding, frameVars, sent, queue, batch, qload, decVars, crashed>>
  /\ queueKeeps

(* VC 1047-1050; 1405 and 1423 *)
finishBlock ==
  /\ qpc = "finish"
  /\ qpc' = "idle"
  /\ queue' = Tail(queue)
  /\ IF Head(queue).op = "decode"
       THEN decoding' = FALSE /\ UNCHANGED sent
       ELSE sent' = Append(sent, Head(queue).playMode) /\ UNCHANGED decoding
  /\ UNCHANGED <<frameVars, batch, qload, decVars, crashed>>
  /\ queueKeeps

QueueStep ==
  \/ decodeStart
  \/ setPosition
  \/ decodeFrames
  \/ addPictures
  \/ addSound
  \/ addDuration
  \/ decodeMore
  \/ finishBlock

-----------------------------------------------------------------------------
(* The audio thread: AM 304-315 calls VC 815-913 while the unit runs and   *)
(* has an outputBlock.  A callback plays one frame.                        *)

audioKeeps ==
  UNCHANGED <<movie, ctlVars, limitVars, videoFrames, endless, raced, viewVars, main,
              todo, timerVars, queueVars, decVars, unitVars, script, shown, crashed>>

CallbackRuns == unit /\ output /\ ~buffered /\ apc = "idle"

(* VC 844-868: a frame too far ahead waits, one too far behind is skipped. *)
fillBesideVideo ==
  /\ CallbackRuns
  /\ ValidVideo
  /\ audioFrames # <<>> /\ ~Locked
  /\ LET delta == moviePosition - PositionOf(Head(audioFrames))
     IN  /\ delta >= -DESYNC
         /\ heard' = IF delta > DESYNC /\ Len(audioFrames) > 1 THEN heard
                                                               ELSE Head(audioFrames)
  /\ audioFrames' = Tail(audioFrames)
  /\ UNCHANGED <<bufferedDuration, moviePosition, apc, aload>>
  /\ audioKeeps

(* VC 871-879 *)
fillAlone ==
  /\ CallbackRuns
  /\ ~ValidVideo
  /\ audioFrames # <<>> /\ ~Locked
  /\ heard' = Head(audioFrames)
  /\ audioFrames' = Tail(audioFrames)
  /\ moviePosition' = PositionOf(Head(audioFrames))
  /\ aload' = bufferedDuration
  /\ apc' = "store"
  /\ UNCHANGED bufferedDuration
  /\ audioKeeps

(* Mutant: the duration of the frame is not given back. *)
fillNoDuration ==
  /\ apc = "store"
  /\ bufferedDuration' = aload
  /\ aload' = 0
  /\ apc' = "idle"
  /\ UNCHANGED <<audioFrames, moviePosition, heard>>
  /\ audioKeeps

(* VC 875 *)
fillDuration ==
  /\ apc = "store"
  /\ bufferedDuration' = aload - 1
  /\ aload' = 0
  /\ apc' = "idle"
  /\ UNCHANGED <<audioFrames, moviePosition, heard>>
  /\ audioKeeps

AudioStep ==
  \/ fillBesideVideo
  \/ fillAlone
  \/ fillDuration

-----------------------------------------------------------------------------

Next == ~crashed /\ (MainStep \/ UserStep \/ QueueStep \/ AudioStep)

Spec == Init /\ [][Next]_vars

(* What is ready runs: the queue and the audio thread do not starve, main  *)
(* goes on with its turn, and a block sent to main gets its turn although  *)
(* the ticks come again and again.  Nobody has to touch anything, but the  *)
(* view appears.                                                           *)
FairSpec ==
  /\ Spec
  /\ WF_vars(~crashed /\ MainStep)
  /\ SF_vars(~crashed /\ (delayedPosition \/ seekDone))
  /\ WF_vars(~crashed /\ view = "loaded" /\ viewDidAppear)
  /\ WF_vars(~crashed /\ QueueStep)
  /\ WF_vars(~crashed /\ AudioStep)

-----------------------------------------------------------------------------
(* Properties *)

(* While the movie plays a tick is armed or being handled: no order of     *)
(* plays, pauses, seeks and warnings stops the clock (VC 544, 1099).       *)
TickAlive ==
  playing => ticks > 0 \/ asleep \/ main \in {"tick_left", "tick_some", "tick_none"}

(* The flag `decoding` (VC 1008, 1016, 1049) keeps a second decode block   *)
(* out of the queue, although main sets it and the queue clears it.        *)
OneDecode ==
  /\ \A i, j \in 1 .. Len(queue) :
       queue[i].op = "decode" /\ queue[j].op = "decode" => i = j
  /\ (\E i \in 1 .. Len(queue) : queue[i].op = "decode") => decoding

(* Once the view has disappeared nothing plays, whatever seek was under    *)
(* way and would call play when it ends (VC 455, 526).                     *)
HiddenIsSilent == interrupted => ~playing /\ ~output

(* Pictures and sound only go forward between two seeks, and a seek is     *)
(* never undone: frames decoded before it are not shown after frames       *)
(* decoded after it.                                                       *)
Before(f, g) == f.seek < g.seek \/ (f.seek = g.seek /\ f.pkt < g.pkt)
InOrder ==
  [][/\ shown' # shown => Before(shown, shown')
     /\ heard' # heard => Before(heard, heard')]_<<shown, heard>>

(* freeBufferedFrames drops the samples the callback may be copying        *)
(* (VC 1447, 892): pauses, seeks and warnings silence the callback first.  *)
(* The exception is a play while a seek is under way.                      *)
FreesInSilence ==
  main \in {"free_audio", "free_duration"} /\ ~impatient => ~output

(* _bufferedDuration is the length of the frames in the array, up to the   *)
(* update in progress, as long as the unlocked reset of VC 1456 has not    *)
(* met an update.  (Sound only: with video every duration is 0 or none.)   *)
DurationExact ==
  ~HasVideo /\ ~raced /\ main # "free_duration" /\ opened = "open" =>
     bufferedDuration = Len(audioFrames)
                          - (IF Locked THEN Len(batch) ELSE 0)
                          + (IF apc = "store" THEN 1 ELSE 0)

(* What a seek leaves in the buffer from before it is one call of          *)
(* decodeFrames, the one that was running when it was emptied, and then at *)
(* most one frame for each seek that was still in the queue (VC 994).      *)
LeftoverBound ==
  ~HasVideo /\ ~impatient =>
     \A i \in CHUNK + 1 .. Len(audioFrames) - 1 :
        audioFrames[i + 1].seek < seeks => audioFrames[i].seek < audioFrames[i + 1].seek

(* A decode block that returns early (VC 1022) leaves `decoding` set.      *)
Stuck == decoding /\ \A i \in 1 .. Len(queue) : queue[i].op # "decode"

(* With _videoTimeBase 0 the movie's position does not advance, and sound  *)
(* that is ahead of it waits (VC 848).                                     *)
SoundWaits ==
  /\ ValidVideo
  /\ audioFrames # <<>>
  /\ moviePosition - PositionOf(Head(audioFrames)) < -DESYNC

(* The interval of an undated picture (D 1186) may be one that never ends. *)
Asleep == asleep /\ ticks = 0

(* Left alone, the player comes to an end: it stops by itself at the end   *)
(* of the file unless decoding is stuck, sound waits for pictures that     *)
(* do not advance, the audio unit does not run, or no tick will come.      *)
PlaybackEnds ==
  <>[](~playing \/ Stuck \/ SoundWaits \/ (HasAudio /\ ~unit) \/ Asleep \/ crashed)

(* What the log line VC 374 says of a memory warning in a movie that       *)
(* plays: "disable buffering and continue playing", so it gets to its end. *)
WarningContinues == warned /\ playing ~> ~playing \/ crashed

(* Whichever comes first, the decoder or the view (VC 413-420, 684-689),   *)
(* playing begins, unless the view goes or memory runs out before.         *)
StartsPlaying ==
  (opened = "open" /\ view = "shown") ~>
     (started \/ interrupted \/ opened = "closed" \/ crashed)
=============================================================================
