--------------------------- MODULE KxMovieProofs ---------------------------
(***************************************************************************)
(* Proofs about KxMovie, for all movies, limits and sequences of events:   *)
(* the clock of a playing movie ticks, a hidden view is silent, buffers    *)
(* are emptied in silence, there is one decode block at a time, pictures   *)
(* and sound go forward, _bufferedDuration is exact until its reset meets  *)
(* an update, and a seek leaves a bounded number of old frames.            *)
(*                                                                         *)
(* None of them is inductive.  The parts of IInv say why the first four    *)
(* hold: the callback has a block only while the movie plays, nothing      *)
(* plays before the view has appeared and the decoder is open, and a seek  *)
(* that waits for its 0.1 s has stopped the movie unless somebody was      *)
(* impatient.  FrameInv is about the frames: their order from the last one *)
(* presented through the arrays to the batch of the running decodeFrames,  *)
(* what was loaded by an update in progress, and what a seek that has not  *)
(* reached the demuxer finds in the array.                                 *)
(***************************************************************************)
EXTENDS KxMovie, SetInduction

TickInv ==
  /\ ticks \in Nat /\ asleep \in BOOLEAN
  /\ TickAlive

SilenceInv ==
  /\ playing \in BOOLEAN /\ output \in BOOLEAN /\ interrupted \in BOOLEAN
  /\ impatient \in BOOLEAN /\ animating \in BOOLEAN
  /\ output => playing
  /\ interrupted => ~playing

(* Until the view has appeared nothing has happened. *)
LoadedInv ==
  view = "loaded" =>
    /\ ~playing /\ ~animating
    /\ main = "idle" /\ ticks = 0
    /\ queue = <<>> /\ qpc = "idle" /\ sent = <<>> /\ delayed = <<>>

ViewInv ==
  /\ view \in {"loaded", "shown", "hidden"}
  /\ view = "hidden" => interrupted
  /\ opened = "opening" => ~playing
  /\ main = "restore" => ~playing

Freeing == main \in {"free_audio", "free_duration"}

SeekInv == ~impatient /\ (delayed # <<>> \/ Freeing) => ~playing

QueueInv ==
  /\ \E S : queue \in Seq(S)
  /\ qpc # "idle" => queue # <<>>
  /\ OneDecode

IInv == TickInv /\ SilenceInv /\ LoadedInv /\ ViewInv /\ SeekInv /\ QueueInv

-----------------------------------------------------------------------------

(* Init establishes the invariant. *)
LEMMA InitIInv == Init => IInv
<1> SUFFICES ASSUME Init PROVE IInv
  OBVIOUS
<1>1. TickInv
  BY DEF Init, TickInv, TickAlive
<1>2. SilenceInv
  BY DEF Init, SilenceInv
<1>3. LoadedInv
  BY DEF Init, LoadedInv
<1>4. ViewInv
  BY DEF Init, ViewInv
<1>5. SeekInv
  BY DEF Init, SeekInv
<1>6. QueueInv
  <2>1. queue \in Seq({})
    BY DEF Init
  <2> QED
    BY <2>1 DEF Init, QueueInv, OneDecode
<1> QED
  BY <1>1, <1>2, <1>3, <1>4, <1>5, <1>6 DEF IInv

(* VC 515-551: play does nothing, or it starts the playing, with a tick    *)
(* and, if there is sound, with the callback.                              *)
LEMMA PlayStarts ==
  ASSUME IInv, play
  PROVE  \/ /\ playing' = playing /\ output' = output
            /\ ticks' = ticks /\ asleep' = asleep
            /\ decoding' = decoding /\ queue' = queue /\ impatient' = impatient
         \/ /\ playing' = TRUE /\ ~interrupted /\ opened = "open"
            /\ asyncDecodeFrames
            /\ ticks' = ticks + 1 /\ asleep' = FALSE
            /\ output' \in BOOLEAN /\ impatient' \in BOOLEAN
            /\ impatient' = (impatient \/ SeekUnderWay)
<1>1. CASE playing \/ interrupted \/ ~(ValidVideo \/ ValidAudio)
  BY <1>1 DEF play, unitVars, tickVars
<1>2. CASE ~(playing \/ interrupted \/ ~(ValidVideo \/ ValidAudio))
  <2>1. /\ playing' = TRUE
        /\ asyncDecodeFrames
        /\ ticks' = ticks + 1 /\ asleep' = FALSE
        /\ IF ValidAudio THEN enableAudio(TRUE) ELSE UNCHANGED unitVars
        /\ impatient' = (impatient \/ SeekUnderWay)
    BY <1>2 DEF play
  <2>2. output' \in BOOLEAN
    BY <2>1 DEF enableAudio, unitVars, IInv, SilenceInv
  <2>3. opened = "open"
    BY <1>2 DEF ValidVideo, ValidAudio
  <2>4. impatient' \in BOOLEAN
    BY <2>1
  <2> QED
    BY <1>2, <2>1, <2>2, <2>3, <2>4
<1> QED
  BY <1>1, <1>2

(* After a play outside the turn of a tick a playing movie has one armed.  *)
LEMMA PlayArms ==
  ASSUME IInv, play, main \notin {"tick_left", "tick_some", "tick_none"}
  PROVE  ticks' \in Nat /\ asleep' \in BOOLEAN /\ (playing' => ticks' > 0 \/ asleep')
<1>1. ticks \in Nat /\ asleep \in BOOLEAN /\ (playing => ticks > 0 \/ asleep)
  BY DEF IInv, TickInv, TickAlive
<1>2. CASE playing' = playing /\ ticks' = ticks /\ asleep' = asleep
  BY <1>1, <1>2, Zenon
<1>3. CASE ticks' = ticks + 1 /\ asleep' = FALSE
  <2>1. ticks' \in Nat /\ ticks' > 0
    BY <1>1, <1>3
  <2>2. asleep' \in BOOLEAN
    BY <1>3
  <2> QED BY <2>1, <2>2
<1> QED BY <1>2, <1>3, PlayStarts

(* What the queue leaves alone; a step of it has a block to run. *)
LEMMA QueueLeaves ==
  ASSUME QueueStep
  PROVE  queueKeeps /\ opened' = opened /\ (qpc # "idle" \/ queue # <<>>)
<1>1. CASE decodeStart \/ setPosition
  BY <1>1 DEF decodeStart, setPosition, decVars
<1>2. CASE decodeFrames
  BY <1>2 DEF decodeFrames, decVars
<1>3. CASE addPictures \/ addSound \/ addDuration
  BY <1>3 DEF addPictures, addSound, addDuration, decVars
<1>4. CASE decodeMore \/ finishBlock
  BY <1>4 DEF decodeMore, finishBlock, decVars
<1> QED
  BY <1>1, <1>2, <1>3, <1>4 DEF QueueStep

(* What the audio thread leaves alone. *)
LEMMA AudioLeaves ==
  ASSUME AudioStep
  PROVE  audioKeeps
BY DEF AudioStep, fillBesideVideo, fillAlone, fillDuration

(* A turn that uses up a tick arms the next one or ends the playing. *)
LEMMA StepTick == IInv /\ [Next]_vars => TickInv'
<1> SUFFICES ASSUME IInv, [Next]_vars PROVE TickInv'
  OBVIOUS
<1> USE DEF IInv, TickInv, TickAlive, tickVars
<1>1. CASE setMovieDecoder
  BY <1>1 DEF setMovieDecoder, Idle, ctlVars, timerVars
<1>2. CASE viewDidAppear
  BY <1>2 DEF viewDidAppear, Idle, ctlVars, timerVars
<1>3. CASE restorePlay
  <2>1. CASE Remembered
    BY <1>3, <2>1 DEF restorePlay, updatePosition, freeBufferedFrames
  <2>2. CASE ~Remembered
    <3>1. play /\ main = "restore" /\ main' = "idle"
      BY <1>3, <2>2 DEF restorePlay
    <3>2. ticks' \in Nat /\ asleep' \in BOOLEAN /\ (playing' => ticks' > 0 \/ asleep')
      BY <3>1, PlayArms
    <3> QED
      BY <3>2
  <2> QED
    BY <2>1, <2>2
<1>4. CASE viewWillDisappear
  BY <1>4 DEF viewWillDisappear, Idle, pause, timerVars
<1>5. CASE playDidTouch
  <2>1. CASE playing
    BY <1>5, <2>1 DEF playDidTouch, Turn, Idle, pause
  <2>2. CASE ~playing
    <3>1. play /\ main = "idle" /\ main' = "idle"
      BY <1>5, <2>2 DEF playDidTouch, Turn, Idle
    <3>2. ticks' \in Nat /\ asleep' \in BOOLEAN /\ (playing' => ticks' > 0 \/ asleep')
      BY <3>1, PlayArms
    <3> QED
      BY <3>2
  <2> QED
    BY <2>1, <2>2
<1>6. CASE \E pos \in SeekTargets : setMoviePosition(pos)
  BY <1>6 DEF setMoviePosition, Turn, Idle
<1>7. CASE didReceiveMemoryWarning
  BY <1>7 DEF didReceiveMemoryWarning, Turn, pause
<1>8. CASE sessionInterruptionListener
  BY <1>8 DEF sessionInterruptionListener, Turn, Idle, ctlVars
<1>9. CASE delayedPosition
  BY <1>9 DEF delayedPosition, Idle, updatePosition, freeBufferedFrames, ctlVars
<1>10. CASE freeAudio
  BY <1>10 DEF freeAudio, ctlVars, timerVars
<1>11. CASE freeDuration
  <2>1. CASE todo.op = "resume"
    <3>1. play /\ main = "free_duration" /\ main' = "idle"
      BY <1>11, <2>1 DEF freeDuration
    <3>2. ticks' \in Nat /\ asleep' \in BOOLEAN /\ (playing' => ticks' > 0 \/ asleep')
      BY <3>1, PlayArms
    <3> QED
      BY <3>2
  <2>2. CASE todo.op # "resume"
    BY <1>11, <2>2 DEF freeDuration, ctlVars
  <2> QED
    BY <2>1, <2>2
<1>12. CASE seekDone
  <2>1. CASE Head(sent)
    <3>1. play /\ main = "idle" /\ main' = "idle"
      BY <1>12, <2>1 DEF seekDone, Idle
    <3>2. ticks' \in Nat /\ asleep' \in BOOLEAN /\ (playing' => ticks' > 0 \/ asleep')
      BY <3>1, PlayArms
    <3> QED
      BY <3>2
  <2>2. CASE ~Head(sent)
    BY <1>12, <2>2 DEF seekDone, Idle
  <2> QED
    BY <2>1, <2>2
<1>13. CASE tick
  BY <1>13 DEF tick, Idle
<1>14. CASE tickLeft
  BY <1>14 DEF tickLeft, ctlVars, timerVars
<1>15. CASE tickEnds
  BY <1>15 DEF tickEnds, pause
<1>16. CASE tickAgain
  <2>1. ticks \in Nat /\ asleep \in BOOLEAN /\ playing' = playing
    BY <1>16 DEF tickAgain
  <2>2. CASE ticks' = ticks + 1 /\ asleep' = FALSE
    <3>1. ticks' \in Nat /\ ticks' > 0
      BY <2>1, <2>2
    <3>2. asleep' \in BOOLEAN
      BY <2>2
    <3> QED BY <3>1, <3>2
  <2>3. CASE asleep' = TRUE /\ ticks' = ticks
    BY <2>1, <2>3
  <2> QED BY <1>16, <2>2, <2>3 DEF tickAgain, armTick
<1>17. CASE QueueStep
  BY <1>17, QueueLeaves DEF queueKeeps
<1>18. CASE AudioStep
  BY <1>18, AudioLeaves DEF audioKeeps, ctlVars, timerVars
<1>19. CASE UNCHANGED vars
  BY <1>19 DEF vars, ctlVars, timerVars
<1> QED
  BY <1>1, <1>2, <1>3, <1>4, <1>5, <1>6, <1>7, <1>8, <1>9, <1>10, <1>11, <1>12,
     <1>13, <1>14, <1>15, <1>16, <1>17, <1>18, <1>19
     DEF Next, MainStep, UserStep

(* VC 553-563: after a pause nothing plays and the callback has no block. *)
LEMMA PauseSilences ==
  ASSUME IInv, pause
  PROVE  playing' = FALSE /\ output' = FALSE
<1>1. CASE playing
  BY <1>1 DEF pause, enableAudio
<1>2. CASE ~playing
  BY <1>2 DEF pause, unitVars, IInv, SilenceInv
<1> QED
  BY <1>1, <1>2

(* play keeps SilenceInv. *)
LEMMA PlayKeepsSilence ==
  ASSUME IInv, play, interrupted' = interrupted, animating' = animating
  PROVE  SilenceInv'
<1>1. SilenceInv
  BY DEF IInv
<1>2. CASE playing' = playing /\ output' = output /\ impatient' = impatient
  BY <1>1, <1>2 DEF SilenceInv
<1>3. CASE /\ playing' = TRUE /\ ~interrupted
           /\ output' \in BOOLEAN /\ impatient' \in BOOLEAN
  BY <1>1, <1>3 DEF SilenceInv
<1> QED
  BY <1>2, <1>3, PlayStarts

(* The callback's block is set by play alone and goes with the playing. *)
LEMMA StepSilence == IInv /\ [Next]_vars => SilenceInv'
<1> SUFFICES ASSUME IInv, [Next]_vars PROVE SilenceInv'
  OBVIOUS
<1> USE DEF IInv, SilenceInv
<1>1. CASE setMovieDecoder
  BY <1>1 DEF setMovieDecoder, ctlVars, unitVars
<1>2. CASE viewDidAppear
  BY <1>2 DEF viewDidAppear, ctlVars, unitVars
<1>3. CASE restorePlay
  <2>1. CASE ~Remembered
    <3>1. play /\ interrupted' = interrupted /\ animating' = animating
      BY <1>3, <2>1 DEF restorePlay, viewVars
    <3> QED
      BY <3>1, PlayKeepsSilence
  <2>2. CASE Remembered
    BY <1>3, <2>2 DEF restorePlay, viewVars, unitVars
  <2> QED
    BY <2>1, <2>2
<1>4. CASE viewWillDisappear
  <2>1. playing' = FALSE /\ output' = FALSE
    BY <1>4, PauseSilences DEF viewWillDisappear
  <2> QED
    BY <1>4, <2>1 DEF viewWillDisappear
<1>5. CASE playDidTouch
  <2>1. CASE ~playing
    <3>1. play /\ interrupted' = interrupted /\ animating' = animating
      BY <1>5, <2>1 DEF playDidTouch, Turn, viewVars
    <3> QED
      BY <3>1, PlayKeepsSilence
  <2>2. CASE playing
    <3>1. playing' = FALSE /\ output' = FALSE
      BY <1>5, <2>2, PauseSilences DEF playDidTouch
    <3> QED
      BY <1>5, <2>2, <3>1 DEF playDidTouch, Turn, viewVars
  <2> QED
    BY <2>1, <2>2
<1>6. CASE \E pos \in SeekTargets : setMoviePosition(pos)
  BY <1>6 DEF setMoviePosition, Turn, enableAudio, viewVars
<1>7. CASE didReceiveMemoryWarning
  <2>1. playing' = FALSE /\ output' = FALSE
    BY <1>7, PauseSilences DEF didReceiveMemoryWarning
  <2> QED
    BY <1>7, <2>1 DEF didReceiveMemoryWarning, Turn, viewVars
<1>8. CASE sessionInterruptionListener
  BY <1>8 DEF sessionInterruptionListener, Turn, ctlVars, viewVars
<1>9. CASE delayedPosition
  BY <1>9 DEF delayedPosition, ctlVars, viewVars, unitVars
<1>10. CASE freeAudio
  BY <1>10 DEF freeAudio, ctlVars, viewVars, unitVars
<1>11. CASE freeDuration
  <2>1. CASE todo.op = "resume"
    <3>1. play /\ interrupted' = interrupted /\ animating' = animating
      BY <1>11, <2>1 DEF freeDuration, viewVars
    <3> QED
      BY <3>1, PlayKeepsSilence
  <2>2. CASE todo.op # "resume"
    BY <1>11, <2>2 DEF freeDuration, ctlVars, viewVars, unitVars
  <2> QED
    BY <2>1, <2>2
<1>12. CASE seekDone
  <2>1. CASE Head(sent)
    <3>1. play /\ interrupted' = interrupted /\ animating' = animating
      BY <1>12, <2>1 DEF seekDone, viewVars
    <3> QED
      BY <3>1, PlayKeepsSilence
  <2>2. CASE ~Head(sent)
    BY <1>12, <2>2 DEF seekDone, viewVars, unitVars
  <2> QED
    BY <2>1, <2>2
<1>13. CASE tick
  BY <1>13 DEF tick, viewVars, unitVars
<1>14. CASE tickLeft
  BY <1>14 DEF tickLeft, ctlVars, viewVars, unitVars
<1>15. CASE tickEnds
  <2>1. playing' = FALSE /\ output' = FALSE
    BY <1>15, PauseSilences DEF tickEnds
  <2> QED
    BY <1>15, <2>1 DEF tickEnds, tickKeeps, viewVars
<1>16. CASE tickAgain
  BY <1>16 DEF tickAgain, tickKeeps, viewVars, unitVars
<1>17. CASE QueueStep
  BY <1>17, QueueLeaves DEF queueKeeps, viewVars, unitVars
<1>18. CASE AudioStep
  BY <1>18, AudioLeaves DEF audioKeeps, ctlVars, viewVars, unitVars
<1>19. CASE UNCHANGED vars
  BY <1>19 DEF vars, ctlVars, viewVars, unitVars
<1> QED
  BY <1>1, <1>2, <1>3, <1>4, <1>5, <1>6, <1>7, <1>8, <1>9, <1>10, <1>11,
     <1>12, <1>13, <1>14, <1>15, <1>16, <1>17, <1>18, <1>19 DEF Next,
     MainStep, UserStep

(* Only the decoder is opened before the view appears. *)
LEMMA StepLoaded == IInv /\ [Next]_vars => LoadedInv'
<1> SUFFICES ASSUME IInv, [Next]_vars PROVE LoadedInv'
  OBVIOUS
<1> USE DEF IInv, LoadedInv
<1>1. CASE setMovieDecoder
  BY <1>1 DEF setMovieDecoder, ctlVars, timerVars, tickVars, queueVars
<1>2. CASE viewDidAppear \/ viewWillDisappear
  BY <1>2 DEF viewDidAppear, viewWillDisappear
<1>3. CASE playDidTouch \/ (\E pos \in SeekTargets : setMoviePosition(pos))
  BY <1>3 DEF playDidTouch, setMoviePosition, Turn, viewVars
<1>4. CASE didReceiveMemoryWarning \/ sessionInterruptionListener
  BY <1>4 DEF didReceiveMemoryWarning, sessionInterruptionListener, Turn,
     viewVars
<1>5. CASE restorePlay \/ freeAudio \/ freeDuration
  BY <1>5 DEF restorePlay, freeAudio, freeDuration, viewVars
<1>6. CASE delayedPosition \/ seekDone
  BY <1>6 DEF delayedPosition, seekDone, viewVars
<1>7. CASE tick
  <2>1. view # "loaded"
    BY <1>7 DEF tick
  <2> QED
    BY <1>7, <2>1 DEF tick, viewVars
<1>8. CASE tickLeft \/ tickEnds \/ tickAgain
  BY <1>8 DEF tickLeft, tickEnds, tickAgain, tickKeeps, viewVars
<1>9. CASE QueueStep
  BY <1>9, QueueLeaves DEF queueKeeps, viewVars
<1>10. CASE AudioStep
  BY <1>10, AudioLeaves DEF audioKeeps, ctlVars, viewVars, timerVars, tickVars, queueVars
<1>11. CASE UNCHANGED vars
  BY <1>11 DEF vars, ctlVars, viewVars, timerVars, tickVars, queueVars
<1> QED
  BY <1>1, <1>2, <1>3, <1>4, <1>5, <1>6, <1>7, <1>8, <1>9, <1>10, <1>11 DEF
     Next, MainStep, UserStep

(* play keeps ViewInv: it starts only with an open decoder. *)
LEMMA PlayKeepsView ==
  ASSUME IInv, play, main' = "idle", UNCHANGED <<view, interrupted, opened>>
  PROVE  ViewInv'
<1>1. ViewInv
  BY DEF IInv
<1>2. CASE playing' = playing
  BY <1>1, <1>2 DEF ViewInv
<1>3. CASE opened = "open"
  BY <1>1, <1>3 DEF ViewInv
<1> QED
  BY <1>2, <1>3, PlayStarts

(* play keeps SeekInv: it remembers that a seek was under way. *)
LEMMA PlayKeepsSeek ==
  ASSUME IInv, play, main' = "idle", delayed' = delayed
  PROVE  SeekInv'
<1>1. SeekInv
  BY DEF IInv
<1>2. CASE playing' = playing /\ impatient' = impatient
  BY <1>1, <1>2 DEF SeekInv, Freeing
<1>3. CASE impatient' = (impatient \/ SeekUnderWay)
  BY <1>3 DEF SeekInv, Freeing, SeekUnderWay
<1> QED
  BY <1>2, <1>3, PlayStarts

(* A view that appears finds nothing playing. *)
LEMMA StepView == IInv /\ [Next]_vars => ViewInv'
<1> SUFFICES ASSUME IInv, [Next]_vars PROVE ViewInv'
  OBVIOUS
<1> USE DEF IInv, ViewInv
<1>1. CASE setMovieDecoder
  BY <1>1 DEF setMovieDecoder, ctlVars
<1>2. CASE viewDidAppear
  BY <1>2 DEF viewDidAppear, LoadedInv, SilenceInv, ctlVars, decVars
<1>3. CASE restorePlay
  <2>1. CASE ~Remembered
    <3>1. play /\ main' = "idle" /\ UNCHANGED <<view, interrupted, opened>>
      BY <1>3, <2>1 DEF restorePlay, viewVars, decVars
    <3> QED
      BY <3>1, PlayKeepsView
  <2>2. CASE Remembered
    BY <1>3, <2>2 DEF restorePlay, updatePosition, freeBufferedFrames, viewVars,
       decVars
  <2> QED
    BY <2>1, <2>2
<1>4. CASE viewWillDisappear
  <2>1. playing' = FALSE
    BY <1>4, PauseSilences DEF viewWillDisappear
  <2> QED
    BY <1>4, <2>1 DEF viewWillDisappear, decVars
<1>5. CASE playDidTouch
  <2>1. CASE ~playing
    <3>1. play /\ main' = "idle" /\ UNCHANGED <<view, interrupted, opened>>
      BY <1>5, <2>1 DEF playDidTouch, Turn, Idle, viewVars, decVars
    <3> QED
      BY <3>1, PlayKeepsView
  <2>2. CASE playing
    BY <1>5, <2>2 DEF playDidTouch, pause, Turn, viewVars, decVars
  <2> QED
    BY <2>1, <2>2
<1>6. CASE \E pos \in SeekTargets : setMoviePosition(pos)
  BY <1>6 DEF setMoviePosition, Turn, viewVars, decVars
<1>7. CASE didReceiveMemoryWarning
  BY <1>7 DEF didReceiveMemoryWarning, pause, Turn, viewVars, decVars
<1>8. CASE sessionInterruptionListener
  BY <1>8 DEF sessionInterruptionListener, Turn, ctlVars, viewVars, decVars
<1>9. CASE delayedPosition \/ freeAudio
  BY <1>9 DEF delayedPosition, freeAudio, updatePosition, freeBufferedFrames,
     ctlVars, viewVars, decVars
<1>10. CASE freeDuration
  <2>1. CASE todo.op = "resume"
    <3>1. play /\ main' = "idle" /\ UNCHANGED <<view, interrupted, opened>>
      BY <1>10, <2>1 DEF freeDuration, viewVars
    <3> QED
      BY <3>1, PlayKeepsView
  <2>2. CASE todo.op # "resume"
    BY <1>10, <2>2 DEF freeDuration, ctlVars, viewVars
  <2> QED
    BY <2>1, <2>2
<1>11. CASE seekDone
  <2>1. CASE Head(sent)
    <3>1. play /\ main' = "idle" /\ UNCHANGED <<view, interrupted, opened>>
      BY <1>11, <2>1 DEF seekDone, Idle, viewVars, decVars
    <3> QED
      BY <3>1, PlayKeepsView
  <2>2. CASE ~Head(sent)
    BY <1>11, <2>2 DEF seekDone, Idle, viewVars, decVars
  <2> QED
    BY <2>1, <2>2
<1>12. CASE tick \/ tickLeft
  BY <1>12 DEF tick, tickLeft, ctlVars, viewVars, decVars
<1>13. CASE tickEnds
  BY <1>13 DEF tickEnds, pause, tickKeeps, viewVars, decVars
<1>14. CASE tickAgain
  BY <1>14 DEF tickAgain, tickKeeps, viewVars, decVars
<1>15. CASE QueueStep
  BY <1>15, QueueLeaves DEF queueKeeps, viewVars, decVars
<1>16. CASE AudioStep
  BY <1>16, AudioLeaves DEF audioKeeps, ctlVars, viewVars, decVars
<1>17. CASE UNCHANGED vars
  BY <1>17 DEF vars, ctlVars, viewVars, decVars
<1> QED
  BY <1>1, <1>2, <1>3, <1>4, <1>5, <1>6, <1>7, <1>8, <1>9, <1>10, <1>11,
     <1>12, <1>13, <1>14, <1>15, <1>16, <1>17 DEF Next, MainStep, UserStep

(* Whatever empties the buffers has stopped the movie, or is late for it. *)
LEMMA StepSeek == IInv /\ [Next]_vars => SeekInv'
<1> SUFFICES ASSUME IInv, [Next]_vars PROVE SeekInv'
  OBVIOUS
<1> USE DEF IInv, SeekInv, Freeing
<1>1. CASE setMovieDecoder \/ viewDidAppear
  BY <1>1 DEF setMovieDecoder, viewDidAppear, Idle, ctlVars, timerVars, tickVars
<1>2. CASE restorePlay
  <2>1. CASE ~Remembered
    <3>1. play /\ main' = "idle" /\ delayed' = delayed
      BY <1>2, <2>1 DEF restorePlay
    <3> QED
      BY <3>1, PlayKeepsSeek
  <2>2. CASE Remembered
    BY <1>2, <2>2 DEF restorePlay, ViewInv
  <2> QED
    BY <2>1, <2>2
<1>3. CASE viewWillDisappear
  BY <1>3 DEF viewWillDisappear, pause
<1>4. CASE playDidTouch
  <2>1. CASE ~playing
    <3>1. play /\ main' = "idle" /\ delayed' = delayed
      BY <1>4, <2>1 DEF playDidTouch, Turn, Idle
    <3> QED
      BY <3>1, PlayKeepsSeek
  <2>2. CASE playing
    BY <1>4, <2>2 DEF playDidTouch, pause
  <2> QED
    BY <2>1, <2>2
<1>5. CASE \E pos \in SeekTargets : setMoviePosition(pos)
  BY <1>5 DEF setMoviePosition
<1>6. CASE didReceiveMemoryWarning
  BY <1>6 DEF didReceiveMemoryWarning, pause
<1>7. CASE sessionInterruptionListener
  BY <1>7 DEF sessionInterruptionListener, Turn, Idle, ctlVars
<1>8. CASE delayedPosition \/ freeAudio
  BY <1>8 DEF delayedPosition, freeAudio, updatePosition, freeBufferedFrames,
     ctlVars, timerVars, tickVars
<1>9. CASE freeDuration
  <2>1. CASE todo.op = "resume"
    <3>1. play /\ main' = "idle" /\ delayed' = delayed
      BY <1>9, <2>1 DEF freeDuration
    <3> QED
      BY <3>1, PlayKeepsSeek
  <2>2. CASE todo.op # "resume"
    BY <1>9, <2>2 DEF freeDuration, ctlVars
  <2> QED
    BY <2>1, <2>2
<1>10. CASE seekDone
  <2>1. CASE Head(sent)
    <3>1. play /\ main' = "idle" /\ delayed' = delayed
      BY <1>10, <2>1 DEF seekDone, Idle
    <3> QED
      BY <3>1, PlayKeepsSeek
  <2>2. CASE ~Head(sent)
    BY <1>10, <2>2 DEF seekDone, Idle
  <2> QED
    BY <2>1, <2>2
<1>11. CASE tick \/ tickLeft
  BY <1>11 DEF tick, tickLeft, ctlVars, timerVars, tickVars
<1>12. CASE tickEnds \/ tickAgain
  BY <1>12 DEF tickEnds, tickAgain, pause, tickKeeps
<1>13. CASE QueueStep
  BY <1>13, QueueLeaves DEF queueKeeps
<1>14. CASE AudioStep
  BY <1>14, AudioLeaves DEF audioKeeps, ctlVars, timerVars, tickVars
<1>15. CASE UNCHANGED vars
  BY <1>15 DEF vars, ctlVars, timerVars, tickVars
<1> QED
  BY <1>1, <1>2, <1>3, <1>4, <1>5, <1>6, <1>7, <1>8, <1>9, <1>10, <1>11,
     <1>12, <1>13, <1>14, <1>15 DEF Next, MainStep, UserStep

(* A block that is no decode block, or the only one, may join the queue. *)
LEMMA AppendKeepsQueue ==
  ASSUME QueueInv, NEW block, queue' = Append(queue, block), qpc' = qpc,
         \/ block.op # "decode" /\ decoding' = decoding
         \/ ~decoding /\ decoding' = TRUE
  PROVE  QueueInv'
<1>1. PICK S : queue \in Seq(S)
  BY DEF QueueInv
<1>2. queue \in Seq(S \cup {block})
  BY <1>1
<1>3. /\ queue' \in Seq(S \cup {block})
      /\ Len(queue') = Len(queue) + 1
      /\ Len(queue) \in Nat
      /\ \A i \in 1 .. Len(queue) : queue'[i] = queue[i]
      /\ queue'[Len(queue) + 1] = block
  BY <1>2
<1>4. queue' # <<>>
  BY <1>3
<1>5. OneDecode'
  BY <1>3 DEF QueueInv, OneDecode
<1> QED
  BY <1>3, <1>4, <1>5 DEF QueueInv

(* VC 1006-1017: asyncDecodeFrames adds a block only if the flag is clear. *)
LEMMA AsyncKeepsQueue ==
  ASSUME QueueInv, asyncDecodeFrames, qpc' = qpc
  PROVE  QueueInv'
<1>1. CASE decoding
  <2>1. queue' = queue /\ decoding' = TRUE
    BY <1>1 DEF asyncDecodeFrames
  <2> QED
    BY <2>1 DEF QueueInv, OneDecode
<1>2. CASE ~decoding
  BY <1>2, AppendKeepsQueue DEF asyncDecodeFrames
<1> QED
  BY <1>1, <1>2

(* play keeps QueueInv. *)
LEMMA PlayKeepsQueue ==
  ASSUME IInv, play, qpc' = qpc
  PROVE  QueueInv'
<1>1. QueueInv
  BY DEF IInv
<1>2. CASE queue' = queue /\ decoding' = decoding
  BY <1>1, <1>2 DEF QueueInv, OneDecode
<1>3. CASE asyncDecodeFrames
  BY <1>1, <1>3, AsyncKeepsQueue
<1> QED
  BY <1>2, <1>3, PlayStarts

(* The block that has run leaves; if it was the decode block, the flag may *)
(* be cleared.                                                             *)
LEMMA TailKeepsQueue ==
  ASSUME QueueInv, queue # <<>>, queue' = Tail(queue), qpc' = "idle",
         decoding' = decoding \/ Head(queue).op = "decode"
  PROVE  QueueInv'
<1>1. PICK S : queue \in Seq(S)
  BY DEF QueueInv
<1>2. /\ queue' \in Seq(S)
      /\ Len(queue) \in Nat \ {0}
      /\ Len(queue') = Len(queue) - 1
      /\ \A i \in 1 .. Len(queue') : queue'[i] = queue[i + 1]
      /\ Head(queue) = queue[1]
  BY <1>1
<1>3. OneDecode'
  <2>1. CASE decoding' = decoding
    BY <1>2, <2>1 DEF QueueInv, OneDecode
  <2>2. CASE Head(queue).op = "decode"
    <3>1. \A i \in 1 .. Len(queue') : queue'[i].op # "decode"
      BY <1>2, <2>2 DEF QueueInv, OneDecode
    <3> QED
      BY <3>1 DEF OneDecode
  <2> QED
    BY <2>1, <2>2
<1> QED
  BY <1>2, <1>3 DEF QueueInv

(* Only asyncDecodeFrames adds a decode block, and only the end of the      *)
(* block clears the flag.                                                   *)
LEMMA StepQueue == IInv /\ [Next]_vars => QueueInv'
<1> SUFFICES ASSUME IInv, [Next]_vars PROVE QueueInv'
  OBVIOUS
<1> USE DEF IInv, QueueInv, OneDecode
<1>1. CASE setMovieDecoder \/ viewDidAppear \/ viewWillDisappear
  <2>1. UNCHANGED <<queue, qpc, decoding>>
    BY <1>1 DEF setMovieDecoder, viewDidAppear, viewWillDisappear, ctlVars,
       queueVars
  <2> QED
    BY <2>1
<1>2. CASE restorePlay
  <2>1. CASE ~Remembered
    <3>1. play /\ qpc' = qpc
      BY <1>2, <2>1 DEF restorePlay
    <3> QED
      BY <3>1, PlayKeepsQueue
  <2>2. CASE Remembered
    <3>1. UNCHANGED <<queue, qpc, decoding>>
      BY <1>2, <2>2 DEF restorePlay
    <3> QED
      BY <3>1
  <2> QED
    BY <2>1, <2>2
<1>3. CASE playDidTouch
  <2>1. CASE ~playing
    <3>1. play /\ qpc' = qpc
      BY <1>3, <2>1 DEF playDidTouch, Turn
    <3> QED
      BY <3>1, PlayKeepsQueue
  <2>2. CASE playing
    <3>1. UNCHANGED <<queue, qpc, decoding>>
      BY <1>3, <2>2 DEF playDidTouch, Turn
    <3> QED
      BY <3>1
  <2> QED
    BY <2>1, <2>2
<1>4. CASE \E pos \in SeekTargets : setMoviePosition(pos)
  <2>1. UNCHANGED <<queue, qpc, decoding>>
    BY <1>4 DEF setMoviePosition, Turn
  <2> QED
    BY <2>1
<1>5. CASE didReceiveMemoryWarning \/ sessionInterruptionListener
  <2>1. UNCHANGED <<queue, qpc, decoding>>
    BY <1>5 DEF didReceiveMemoryWarning, sessionInterruptionListener, Turn,
       ctlVars
  <2> QED
    BY <2>1
<1>6. CASE delayedPosition \/ freeAudio
  <2>1. UNCHANGED <<queue, qpc, decoding>>
    BY <1>6 DEF delayedPosition, freeAudio, ctlVars, queueVars
  <2> QED
    BY <2>1
<1>7. CASE freeDuration
  <2>1. qpc' = qpc
    BY <1>7 DEF freeDuration
  <2>2. CASE todo.op = "resume"
    BY <1>7, <2>1, <2>2, PlayKeepsQueue DEF freeDuration
  <2>3. CASE todo.op = "seek" /\ opened \notin {"opening", "failed"}
    <3>1. queue' = Append(queue, todo) /\ decoding' = decoding
      BY <1>7, <2>3 DEF freeDuration, ctlVars
    <3> QED
      BY <2>1, <2>3, <3>1, AppendKeepsQueue
  <2>4. CASE ~(todo.op = "resume" \/ (todo.op = "seek" /\ opened \notin {"opening", "failed"}))
    <3>1. UNCHANGED <<queue, qpc, decoding>>
      BY <1>7, <2>1, <2>4 DEF freeDuration, ctlVars
    <3> QED
      BY <3>1
  <2> QED
    BY <2>2, <2>3, <2>4
<1>8. CASE seekDone
  <2>1. CASE Head(sent)
    <3>1. play /\ qpc' = qpc
      BY <1>8, <2>1 DEF seekDone
    <3> QED
      BY <3>1, PlayKeepsQueue
  <2>2. CASE ~Head(sent)
    <3>1. UNCHANGED <<queue, qpc, decoding>>
      BY <1>8, <2>2 DEF seekDone
    <3> QED
      BY <3>1
  <2> QED
    BY <2>1, <2>2
<1>9. CASE tick \/ tickLeft \/ tickEnds
  <2>1. UNCHANGED <<queue, qpc, decoding>>
    BY <1>9 DEF tick, tickLeft, tickEnds, tickKeeps, ctlVars, queueVars
  <2> QED
    BY <2>1
<1>10. CASE tickAgain
  <2>1. qpc' = qpc
    BY <1>10 DEF tickAgain, tickKeeps
  <2>2. CASE asyncDecodeFrames
    BY <2>1, <2>2, AsyncKeepsQueue
  <2>3. CASE UNCHANGED <<decoding, queue>>
    BY <2>1, <2>3
  <2> QED
    BY <1>10, <2>2, <2>3 DEF tickAgain
<1>11. CASE decodeStart
  <2>1. CASE playing
    BY <1>11, <2>1 DEF decodeStart
  <2>2. CASE ~playing
    <3>1. /\ queue # <<>> /\ queue' = Tail(queue)
          /\ qpc' = "idle" /\ decoding' = decoding
      BY <1>11, <2>2 DEF decodeStart
    <3> QED
      BY <3>1, TailKeepsQueue
  <2> QED
    BY <2>1, <2>2
<1>12. CASE finishBlock
  <2>1. /\ queue # <<>> /\ queue' = Tail(queue) /\ qpc' = "idle"
        /\ decoding' = decoding \/ Head(queue).op = "decode"
    BY <1>12 DEF finishBlock
  <2> QED
    BY <2>1, TailKeepsQueue
<1>13. CASE setPosition \/ decodeFrames \/ addPictures \/ addSound
          \/ addDuration \/ decodeMore
  <2>1. UNCHANGED <<queue, decoding>> /\ queue # <<>>
    BY <1>13 DEF setPosition, decodeFrames, addPictures, addSound, addDuration,
       decodeMore
  <2> QED
    BY <2>1
<1>14. CASE AudioStep
  <2>1. UNCHANGED <<queue, qpc, decoding>>
    BY <1>14, AudioLeaves DEF audioKeeps, ctlVars, queueVars
  <2> QED
    BY <2>1
<1>15. CASE UNCHANGED vars
  BY <1>15 DEF vars, ctlVars, queueVars
<1> QED
  BY <1>1, <1>2, <1>3, <1>4, <1>5, <1>6, <1>7, <1>8, <1>9, <1>10, <1>11,
     <1>12, <1>13, <1>14, <1>15 DEF Next, MainStep, UserStep, QueueStep

-----------------------------------------------------------------------------

(* The inductive invariant. *)
THEOREM Invariant == Spec => []IInv
<1>1. IInv /\ [Next]_vars => IInv'
  BY StepTick, StepSilence, StepLoaded, StepView, StepSeek, StepQueue DEF IInv
<1> QED
  BY InitIInv, <1>1, PTL DEF Spec

(* For all movies and all sequences of plays, pauses, seeks, warnings and  *)
(* interruptions the clock of a playing movie ticks (VC 544, 1099).        *)
THEOREM ClockTicks == Spec => []TickAlive
<1>1. IInv => TickAlive
  BY DEF IInv, TickInv
<1> QED
  BY Invariant, <1>1, PTL

(* A view that has disappeared stays silent: no seek that ends late starts *)
(* the movie again (VC 455, 526).                                          *)
THEOREM SilentWhenHidden == Spec => []HiddenIsSilent
<1>1. IInv => HiddenIsSilent
  BY DEF IInv, SilenceInv, HiddenIsSilent
<1> QED
  BY Invariant, <1>1, PTL

(* The samples are dropped (VC 1447) while the callback has no block,      *)
(* unless play was called with a seek under way.                           *)
THEOREM SamplesFreedInSilence == Spec => []FreesInSilence
<1>1. IInv => FreesInSilence
  BY DEF IInv, SilenceInv, SeekInv, Freeing, FreesInSilence
<1> QED
  BY Invariant, <1>1, PTL

(* The flag `decoding`, which two threads write without a lock, keeps the  *)
(* decode blocks in the queue to one (VC 1008, 1016, 1049).                *)
THEOREM OneDecodeBlock == Spec => []OneDecode
<1>1. IInv => OneDecode
  BY DEF IInv, QueueInv
<1> QED
  BY Invariant, <1>1, PTL

-----------------------------------------------------------------------------
(* The recursive filters *)

(* One step of the recursion. *)
PickNext(T, x, f) == IF movie.packets[f.pkt] \in T THEN Append(x, f) ELSE x

Picking(f, T, s, n) ==
  f[0] = <<>> /\ \A i \in 1 .. n : f[i] = PickNext(T, f[i - 1], s[i])

(* Picked is the value of a recursive function. *)
LEMMA PickedFunction ==
  ASSUME NEW n \in Nat, NEW S, NEW T, NEW s, \A i \in 1 .. n : s[i] \in S
  PROVE  \E f \in [0 .. n -> Seq(S)] : Picking(f, T, s, n) /\ Picked(T, s, n) = f[n]
<1> DEFINE Q == Seq(S)
           G == [i \in 1 .. n |-> [x \in Q |-> PickNext(T, x, s[i])]]
           Picks(f) == f = [i \in 0 .. n |->
                              IF i = 0 THEN <<>> ELSE PickNext(T, f[i - 1], s[i])]
<1>1. ASSUME NEW i \in 1 .. n, NEW x \in Q PROVE PickNext(T, x, s[i]) \in Q
  BY DEF PickNext
<1>2. <<>> \in Q
  OBVIOUS
<1> HIDE DEF Q
<1>3. G \in [1 .. n -> [Q -> Q]]
  BY <1>1
<1>4. PICK f \in [0 .. n -> Q] : Steps(f, <<>>, G, n)
  <2> HIDE DEF G
  <2> QED BY <1>2, <1>3, RecursionExists
<1>5. f[0] = <<>>
  BY <1>4 DEF Steps
<1>6. ASSUME NEW i \in 1 .. n PROVE f[i] = PickNext(T, f[i - 1], s[i])
  <2>1. f[i] = G[i][f[i - 1]]
    BY <1>4 DEF Steps
  <2>2. f[i - 1] \in Q
    OBVIOUS
  <2> QED BY <2>1, <2>2
<1>7. Picks(f)
  BY <1>5, <1>6
<1> DEFINE g == CHOOSE h : Picks(h)
<1>8. Picks(g)
  BY <1>7
<1>9. g[0] = <<>> /\ \A i \in 1 .. n : g[i] = PickNext(T, g[i - 1], s[i])
  <2>1. ASSUME NEW h, Picks(h)
        PROVE  h[0] = <<>> /\ \A i \in 1 .. n : h[i] = PickNext(T, h[i - 1], s[i])
    BY <2>1
  <2> HIDE DEF g, Picks
  <2> QED BY <1>8, <2>1
<1>10. Picked(T, s, n) = g[n]
  BY DEF Picked, PickNext
<1>11. f[n] = g[n]
  <2> DEFINE P == {k \in Nat : k <= n => f[k] = g[k]}
  <2>1. 0 \in P
    BY <1>5, <1>9
  <2>2. ASSUME NEW k \in Nat, k \in P PROVE k + 1 \in P
    <3> HIDE DEF g
    <3> QED BY <1>6, <1>9, <2>2
  <2>3. \A k \in Nat : k \in P
    <3> HIDE DEF P
    <3> QED BY <2>1, <2>2, NatSetInduction
  <2> QED BY <2>3
<1> HIDE DEF g
<1> QED BY <1>5, <1>6, <1>10, <1>11 DEF Q, Picking

PickedSteps(S, T, s, n) ==
  /\ Picked(T, s, 0) = <<>>
  /\ \A k \in 0 .. n : Picked(T, s, k) \in Seq(S)
  /\ \A k \in 1 .. n : Picked(T, s, k) = PickNext(T, Picked(T, s, k - 1), s[k])

(* Picked goes from frame to frame. *)
LEMMA PickedStep ==
  ASSUME NEW n \in Nat, NEW S, NEW T, NEW s, \A i \in 1 .. n : s[i] \in S
  PROVE  PickedSteps(S, T, s, n)
<1> DEFINE Q == Seq(S)
<1> HIDE DEF Q
<1>1. ASSUME NEW k \in 0 .. n
      PROVE  \E g \in [0 .. k -> Q] : Picking(g, T, s, k) /\ Picked(T, s, k) = g[k]
  <2>1. k \in Nat /\ \A i \in 1 .. k : s[i] \in S
    OBVIOUS
  <2> QED BY <2>1, PickedFunction DEF Q
<1>2. PICK f \in [0 .. n -> Q] : Picking(f, T, s, n)
  <2>1. n \in 0 .. n
    OBVIOUS
  <2> QED BY <2>1, <1>1
<1>3. ASSUME NEW k \in 0 .. n PROVE Picked(T, s, k) = f[k]
  <2>1. PICK g \in [0 .. k -> Q] : Picking(g, T, s, k) /\ Picked(T, s, k) = g[k]
    BY <1>1
  <2> DEFINE P == {i \in Nat : i <= k => f[i] = g[i]}
  <2>2. 0 \in P
    BY <1>2, <2>1 DEF Picking
  <2>3. ASSUME NEW i \in Nat, i \in P PROVE i + 1 \in P
    BY <1>2, <2>1, <2>3 DEF Picking
  <2>4. \A i \in Nat : i \in P
    <3> HIDE DEF P
    <3> QED BY <2>2, <2>3, NatSetInduction
  <2> QED BY <2>1, <2>4
<1>4. Picked(T, s, 0) = <<>>
  BY <1>2, <1>3 DEF Picking
<1>5. \A k \in 0 .. n : Picked(T, s, k) \in Q
  BY <1>3
<1>6. ASSUME NEW k \in 1 .. n
      PROVE  Picked(T, s, k) = PickNext(T, Picked(T, s, k - 1), s[k])
  <2>1. k \in 0 .. n /\ k - 1 \in 0 .. n
    OBVIOUS
  <2> QED BY <1>2, <1>3, <2>1 DEF Picking
<1> QED BY <1>4, <1>5, <1>6 DEF Q, PickedSteps

(* Picked looks at the first n frames only. *)
LEMMA PickedAgree ==
  ASSUME NEW n \in Nat, NEW S, NEW T, NEW s, NEW t,
         \A i \in 1 .. n : s[i] \in S, \A i \in 1 .. n : s[i] = t[i]
  PROVE  Picked(T, s, n) = Picked(T, t, n)
<1> DEFINE P == {k \in Nat : k <= n => Picked(T, s, k) = Picked(T, t, k)}
<1>1. \A i \in 1 .. n : t[i] \in S
  OBVIOUS
<1>s. PickedSteps(S, T, s, n) /\ PickedSteps(S, T, t, n)
  <2> HIDE DEF P
  <2> QED BY <1>1, PickedStep
<1>2. 0 \in P
  BY <1>s DEF PickedSteps
<1>3. ASSUME NEW k \in Nat, k \in P PROVE k + 1 \in P
  <2> SUFFICES ASSUME k + 1 <= n PROVE Picked(T, s, k + 1) = Picked(T, t, k + 1)
    OBVIOUS
  <2>1. Picked(T, s, k) = Picked(T, t, k) /\ k + 1 \in 1 .. n /\ (k + 1) - 1 = k
    BY <1>3
  <2> QED BY <1>s, <2>1 DEF PickedSteps
<1>4. \A k \in Nat : k \in P
  <2> HIDE DEF P
  <2> QED BY <1>2, <1>3, NatSetInduction
<1> QED BY <1>4

FromTo(x, T, s, n) ==
  \A j \in 1 .. Len(x) : \E i \in 1 .. n : x[j] = s[i] /\ movie.packets[s[i].pkt] \in T

(* What is picked comes from the frames, and from packets of the types. *)
LEMMA PickedFrom ==
  ASSUME NEW n \in Nat, NEW S, NEW T, NEW s, \A i \in 1 .. n : s[i] \in S
  PROVE  /\ Picked(T, s, n) \in Seq(S)
         /\ Len(Picked(T, s, n)) <= n
         /\ FromTo(Picked(T, s, n), T, s, n)
<1> DEFINE P == {k \in Nat : k <= n => /\ Len(Picked(T, s, k)) <= k
                                       /\ FromTo(Picked(T, s, k), T, s, k)}
<1>1. PickedSteps(S, T, s, n)
  <2> HIDE DEF P
  <2> QED BY PickedStep
<1>2. 0 \in P
  BY <1>1 DEF PickedSteps, FromTo
<1>3. ASSUME NEW k \in Nat, k \in P PROVE k + 1 \in P
  <2> SUFFICES ASSUME k + 1 <= n
               PROVE  /\ Len(Picked(T, s, k + 1)) <= k + 1
                      /\ FromTo(Picked(T, s, k + 1), T, s, k + 1)
    OBVIOUS
  <2> DEFINE x == Picked(T, s, k)
             y == Picked(T, s, k + 1)
  <2>1. k \in 0 .. n /\ k + 1 \in 1 .. n /\ (k + 1) - 1 = k
    OBVIOUS
  <2>2. x \in Seq(S) /\ s[k + 1] \in S /\ y = PickNext(T, x, s[k + 1])
    BY <1>1, <2>1 DEF PickedSteps
  <2>3. Len(x) <= k /\ FromTo(x, T, s, k)
    BY <1>3, <2>1
  <2> HIDE DEF x, y
  <2>4. CASE movie.packets[s[k + 1].pkt] \in T
    <3>1. /\ Len(y) = Len(x) + 1 /\ y[Len(x) + 1] = s[k + 1]
          /\ \A j \in 1 .. Len(x) : y[j] = x[j]
      BY <2>2, <2>4 DEF PickNext
    <3> QED BY <2>1, <2>2, <2>3, <2>4, <3>1 DEF FromTo, y
  <2>5. CASE movie.packets[s[k + 1].pkt] \notin T
    <3>1. y = x
      BY <2>2, <2>5 DEF PickNext
    <3> QED BY <2>1, <2>2, <2>3, <3>1 DEF FromTo, y
  <2> QED BY <2>4, <2>5
<1>4. \A k \in Nat : k \in P
  <2> HIDE DEF P
  <2> QED BY <1>2, <1>3, NatSetInduction
<1> QED BY <1>1, <1>4 DEF PickedSteps

Sorted(s) == \A i, j \in 1 .. Len(s) : i < j => Before(s[i], s[j])

(* What is picked from frames in order is in order. *)
LEMMA PickedSorted ==
  ASSUME NEW n \in Nat, NEW S, NEW T, NEW s, \A i \in 1 .. n : s[i] \in S,
         \A i, j \in 1 .. n : i < j => Before(s[i], s[j])
  PROVE  Sorted(Picked(T, s, n))
<1> DEFINE P == {k \in Nat : k <= n => Sorted(Picked(T, s, k))}
<1>1. PickedSteps(S, T, s, n)
  <2> HIDE DEF P
  <2> QED BY PickedStep
<1>2. 0 \in P
  BY <1>1 DEF PickedSteps, Sorted
<1>3. ASSUME NEW k \in Nat, k \in P PROVE k + 1 \in P
  <2> SUFFICES ASSUME k + 1 <= n PROVE Sorted(Picked(T, s, k + 1))
    OBVIOUS
  <2> DEFINE x == Picked(T, s, k)
             y == Picked(T, s, k + 1)
  <2>1. k \in 0 .. n /\ k + 1 \in 1 .. n /\ (k + 1) - 1 = k
    OBVIOUS
  <2>2. x \in Seq(S) /\ s[k + 1] \in S /\ y = PickNext(T, x, s[k + 1])
    BY <1>1, <2>1 DEF PickedSteps
  <2>3. Sorted(x)
    BY <1>3, <2>1
  <2>4. FromTo(x, T, s, k)
    <3>1. \A i \in 1 .. k : s[i] \in S
      OBVIOUS
    <3> HIDE DEF P
    <3> QED BY <3>1, PickedFrom
  <2> HIDE DEF x, y, P
  <2>5. \A j \in 1 .. Len(x) : Before(x[j], s[k + 1])
    BY <2>1, <2>4 DEF FromTo
  <2>6. CASE movie.packets[s[k + 1].pkt] \in T
    <3>1. /\ Len(y) = Len(x) + 1 /\ y[Len(x) + 1] = s[k + 1]
          /\ \A j \in 1 .. Len(x) : y[j] = x[j]
      BY <2>2, <2>6 DEF PickNext
    <3>2. Sorted(y)
      BY <2>2, <2>3, <2>5, <3>1 DEF Sorted
    <3> QED BY <3>2 DEF y
  <2>7. CASE movie.packets[s[k + 1].pkt] \notin T
    BY <2>2, <2>3, <2>7 DEF PickNext, y
  <2> QED BY <2>6, <2>7
<1>4. \A k \in Nat : k \in P
  <2> HIDE DEF P
  <2> QED BY <1>2, <1>3, NatSetInduction
<1> QED BY <1>4

(* If all frames have one of the types all are picked. *)
LEMMA PickedAll ==
  ASSUME NEW n \in Nat, NEW S, NEW T, NEW s, \A i \in 1 .. n : s[i] \in S,
         \A i \in 1 .. n : movie.packets[s[i].pkt] \in T
  PROVE  Len(Picked(T, s, n)) = n
<1> DEFINE P == {k \in Nat : k <= n => Len(Picked(T, s, k)) = k}
<1>1. PickedSteps(S, T, s, n)
  <2> HIDE DEF P
  <2> QED BY PickedStep
<1>2. 0 \in P
  BY <1>1 DEF PickedSteps
<1>3. ASSUME NEW k \in Nat, k \in P PROVE k + 1 \in P
  <2> SUFFICES ASSUME k + 1 <= n PROVE Len(Picked(T, s, k + 1)) = k + 1
    OBVIOUS
  <2>1. k \in 0 .. n /\ k + 1 \in 1 .. n /\ (k + 1) - 1 = k
    OBVIOUS
  <2>2. /\ Picked(T, s, k) \in Seq(S) /\ s[k + 1] \in S
        /\ Picked(T, s, k + 1) = Append(Picked(T, s, k), s[k + 1])
    BY <1>1, <2>1 DEF PickedSteps, PickNext
  <2>3. Len(Picked(T, s, k)) = k
    BY <1>3, <2>1
  <2> QED BY <2>2, <2>3
<1>4. \A k \in Nat : k \in P
  <2> HIDE DEF P
  <2> QED BY <1>2, <1>3, NatSetInduction
<1> QED BY <1>4

Frame == [pkt : Nat, seek : Nat]
MovieInv == \E v \in Viewings : movie = v.movie

(* What the file may hold. *)
LEMMA MovieFacts ==
  ASSUME MovieInv
  PROVE  /\ movie.packets \in Seq(movie.streams \cup {"other"})
         /\ movie.streams \subseteq {"audio", "video"}
         /\ ~HasVideo => HasAudio /\ movie.streams = {"audio"}
<1>1. /\ movie.packets \in Seq(movie.streams \cup {"other"})
      /\ movie.streams \subseteq {"audio", "video"}
      /\ movie.streams # {}
  BY KxAssumption DEF MovieInv
<1>2. ~HasVideo => HasAudio /\ movie.streams = {"audio"}
  BY <1>1 DEF HasVideo, HasAudio
<1> QED BY <1>1, <1>2

(* D 1363-1376: the frames of the packets up to n, in order, each of its   *)
(* own packet, which is no foreign one.                                    *)
LEMMA FramesToFacts ==
  ASSUME nread \in Nat, seeks \in Nat, NEW n \in Nat, nread <= n
  PROVE  /\ FramesTo(n) \in Seq(Frame)
         /\ Sorted(FramesTo(n))
         /\ Len(FramesTo(n)) <= n - nread
         /\ \A i \in 1 .. Len(FramesTo(n)) :
              /\ FramesTo(n)[i].seek = seeks
              /\ FramesTo(n)[i].pkt \in nread + 1 .. n
              /\ movie.packets[FramesTo(n)[i].pkt] \in {"audio", "video"}
<1> DEFINE all == [i \in 1 .. n - nread |-> [pkt |-> nread + i, seek |-> seeks]]
           m == n - nread
           T == {"audio", "video"}
<1>1. m \in Nat
  OBVIOUS
<1>2. /\ \A i \in 1 .. m : all[i] \in Frame
      /\ \A i \in 1 .. m : all[i].seek = seeks /\ all[i].pkt \in nread + 1 .. n
      /\ \A i, j \in 1 .. m : i < j => Before(all[i], all[j])
  BY DEF Frame, Before
<1>3. FramesTo(n) = Picked(T, all, m)
  BY DEF FramesTo
<1> HIDE DEF all, m, T
<1>4. /\ Picked(T, all, m) \in Seq(Frame)
      /\ Len(Picked(T, all, m)) <= m
      /\ FromTo(Picked(T, all, m), T, all, m)
  BY <1>1, <1>2, PickedFrom
<1>5. Sorted(Picked(T, all, m))
  BY <1>1, <1>2, PickedSorted
<1>6. \A i \in 1 .. Len(FramesTo(n)) :
        /\ FramesTo(n)[i].seek = seeks
        /\ FramesTo(n)[i].pkt \in nread + 1 .. n
        /\ movie.packets[FramesTo(n)[i].pkt] \in T
  BY <1>2, <1>3, <1>4 DEF FromTo
<1> QED BY <1>3, <1>4, <1>5, <1>6 DEF m, T

(* One more packet is at most one more frame. *)
LEMMA FramesToStep ==
  ASSUME nread \in Nat, seeks \in Nat, NEW n \in Nat, nread <= n
  PROVE  Len(FramesTo(n + 1)) <= Len(FramesTo(n)) + 1
<1> DEFINE all(k) == [i \in 1 .. k - nread |-> [pkt |-> nread + i, seek |-> seeks]]
           m == n - nread
           T == {"audio", "video"}
           s == all(n)
           t == all(n + 1)
<1>1. m \in Nat /\ m + 1 \in Nat /\ (n + 1) - nread = m + 1
  OBVIOUS
<1>2. /\ \A i \in 1 .. m : s[i] \in Frame /\ s[i] = t[i]
      /\ \A i \in 1 .. m + 1 : t[i] \in Frame
  BY <1>1 DEF Frame
<1>3. FramesTo(n) = Picked(T, s, m) /\ FramesTo(n + 1) = Picked(T, t, m + 1)
  BY <1>1 DEF FramesTo
<1> HIDE DEF s, t, m, T
<1>4. Picked(T, s, m) = Picked(T, t, m)
  BY <1>1, <1>2, PickedAgree
<1>5. PickedSteps(Frame, T, t, m + 1)
  BY <1>1, <1>2, PickedStep
<1>6. m \in 0 .. m + 1 /\ m + 1 \in 1 .. m + 1 /\ (m + 1) - 1 = m
  BY <1>1
<1>7. /\ Picked(T, t, m) \in Seq(Frame)
      /\ Picked(T, t, m + 1) = PickNext(T, Picked(T, t, m), t[m + 1])
  BY <1>5, <1>6 DEF PickedSteps
<1>8. Len(Picked(T, t, m + 1)) <= Len(Picked(T, t, m)) + 1
  <2> DEFINE x == Picked(T, t, m)
             f == t[m + 1]
  <2>1. x \in Seq(Frame) /\ f \in Frame /\ Picked(T, t, m + 1) = PickNext(T, x, f)
    BY <1>2, <1>6, <1>7
  <2> HIDE DEF x, f
  <2>2. Len(PickNext(T, x, f)) <= Len(x) + 1
    BY <2>1 DEF PickNext
  <2> QED BY <2>1, <2>2 DEF x
<1> QED BY <1>3, <1>4, <1>8

(* What addFrames takes from the batch (VC 946, 958). *)
LEMMA OnlyFacts ==
  ASSUME NEW type, NEW frames \in Seq(Frame)
  PROVE  /\ Only(type, frames) \in Seq(Frame)
         /\ Len(Only(type, frames)) <= Len(frames)
         /\ Sorted(frames) => Sorted(Only(type, frames))
         /\ \A j \in 1 .. Len(Only(type, frames)) :
              \E i \in 1 .. Len(frames) : Only(type, frames)[j] = frames[i]
         /\ (\A i \in 1 .. Len(frames) : movie.packets[frames[i].pkt] = type)
              => Len(Only(type, frames)) = Len(frames)
<1> DEFINE T == {type}
           n == Len(frames)
<1>1. n \in Nat /\ \A i \in 1 .. n : frames[i] \in Frame
  OBVIOUS
<1>2. Only(type, frames) = Picked(T, frames, n)
  BY DEF Only
<1> HIDE DEF T, n
<1>3. /\ Picked(T, frames, n) \in Seq(Frame)
      /\ Len(Picked(T, frames, n)) <= n
      /\ FromTo(Picked(T, frames, n), T, frames, n)
  BY <1>1, PickedFrom
<1>4. Sorted(frames) => Sorted(Picked(T, frames, n))
  <2> SUFFICES ASSUME Sorted(frames) PROVE Sorted(Picked(T, frames, n))
    OBVIOUS
  <2>1. \A i, j \in 1 .. n : i < j => Before(frames[i], frames[j])
    BY DEF Sorted, n
  <2> QED BY <1>1, <2>1, PickedSorted
<1>5. (\A i \in 1 .. n : movie.packets[frames[i].pkt] = type)
        => Len(Picked(T, frames, n)) = n
  <2> SUFFICES ASSUME \A i \in 1 .. n : movie.packets[frames[i].pkt] = type
               PROVE  Len(Picked(T, frames, n)) = n
    OBVIOUS
  <2>1. \A i \in 1 .. n : movie.packets[frames[i].pkt] \in T
    BY DEF T
  <2> QED BY <1>1, <2>1, PickedAll
<1>6. \A j \in 1 .. Len(Only(type, frames)) :
        \E i \in 1 .. Len(frames) : Only(type, frames)[j] = frames[i]
  BY <1>2, <1>3 DEF FromTo, n
<1> QED BY <1>2, <1>3, <1>4, <1>5, <1>6 DEF n

AllSound(frames) == \A i \in 1 .. Len(frames) : movie.packets[frames[i].pkt] = "audio"

(* Without video the frames read from the file are all sound, and their    *)
(* number is how long they last.                                           *)
LEMMA SoundLasts ==
  ASSUME MovieInv, ~HasVideo, nread \in Nat, seeks \in Nat,
         NEW n \in Nat, nread <= n, n <= Len(movie.packets) \/ n = nread
  PROVE  AllSound(FramesTo(n)) /\ Lasting(FramesTo(n)) = Len(FramesTo(n))
<1> DEFINE x == FramesTo(n)
<1>1. /\ x \in Seq(Frame)
      /\ Len(x) <= n - nread
      /\ \A i \in 1 .. Len(x) : /\ x[i].pkt \in nread + 1 .. n
                               /\ movie.packets[x[i].pkt] \in {"audio", "video"}
  BY FramesToFacts
<1> HIDE DEF x
<1>2. AllSound(x)
  <2>1. ASSUME NEW i \in 1 .. Len(x) PROVE movie.packets[x[i].pkt] = "audio"
    <3>1. x[i].pkt \in 1 .. Len(movie.packets)
      BY <1>1
    <3>2. movie.packets[x[i].pkt] \in movie.streams \cup {"other"}
      BY <3>1, MovieFacts
    <3> QED BY <1>1, <3>2, MovieFacts DEF HasVideo
  <2> QED BY <2>1 DEF AllSound
<1>3. Len(Only("audio", x)) = Len(x)
  BY <1>1, <1>2, OnlyFacts DEF AllSound
<1> QED BY <1>2, <1>3 DEF Lasting, x

(* The larger of two numbers. *)
LEMMA LargerNat ==
  ASSUME NEW m \in Nat, NEW n \in Nat
  PROVE  /\ Larger(m, n) \in Nat /\ m <= Larger(m, n)
         /\ Larger(m, n) <= n \/ Larger(m, n) = m
BY DEF Larger

(* D 1363-1511: the first packets whose frames last longer than            *)
(* minDuration, or the rest of the file.                                   *)
LEMMA ReadsBatch ==
  ASSUME MovieInv, nread \in Nat, seeks \in Nat, opened = "open", decodeFrames
  PROVE  \E n \in Nat :
           /\ nread <= n /\ (n <= Len(movie.packets) \/ n = nread)
           /\ nread' = n /\ batch' = FramesTo(n)
           /\ ~HasVideo => Len(FramesTo(n)) <= minDuration + 1
<1> DEFINE N == Len(movie.packets)
           long == {n \in nread + 1 .. N : Lasting(FramesTo(n)) > minDuration \/ Endless(FramesTo(n))}
           last == IF long = {} THEN Larger(nread, N)
                                ELSE CHOOSE n \in long : \A k \in long : n <= k
<1>1. nread' = last /\ batch' = FramesTo(last)
  BY DEF decodeFrames
<1>2. N \in Nat
  BY MovieFacts
<1>3. minDuration \in Nat
  BY KxAssumption DEF minDuration
<1>4. FramesTo(nread) = <<>>
  <2>1. FramesTo(nread) \in Seq(Frame) /\ Len(FramesTo(nread)) <= nread - nread
    BY FramesToFacts
  <2> QED BY <2>1
<1>5. CASE long = {}
  <2>1. last = Larger(nread, N)
    BY <1>5
  <2>2. last \in Nat /\ nread <= last /\ (last <= N \/ last = nread)
    <3> HIDE DEF last, long, N
    <3> QED BY <1>2, <2>1, LargerNat
  <2>3. ASSUME ~HasVideo PROVE Len(FramesTo(last)) <= minDuration + 1
    <3>1. CASE last = nread
      <4>1. FramesTo(last) = <<>>
        BY <1>4, <3>1
      <4> HIDE DEF last
      <4> QED BY <1>3, <4>1
    <3>2. CASE last # nread
      <4>1. last \in nread + 1 .. N
        BY <1>2, <2>2, <3>2
      <4>2. ~(Lasting(FramesTo(last)) > minDuration)
        BY <1>5, <4>1
      <4>3. Lasting(FramesTo(last)) = Len(FramesTo(last)) /\ FramesTo(last) \in Seq(Frame)
        BY <2>2, <2>3, SoundLasts, FramesToFacts
      <4> HIDE DEF last
      <4> QED BY <1>3, <4>2, <4>3
    <3> QED BY <3>1, <3>2
  <2> HIDE DEF last
  <2> QED BY <1>1, <2>2, <2>3
<1>6. CASE long # {}
  <2>1. last \in long /\ \A k \in long : last <= k
    <3>1. \E n \in long : \A k \in long : n <= k
      <4>1. long \subseteq Nat
        OBVIOUS
      <4> HIDE DEF long
      <4> QED BY <1>6, <4>1, SmallestExists
    <3> HIDE DEF long
    <3> QED BY <1>6, <3>1
  <2> HIDE DEF last
  <2>2. last \in Nat /\ last \in nread + 1 .. N
    BY <2>1
  <2>3. ASSUME ~HasVideo PROVE Len(FramesTo(last)) <= minDuration + 1
    <3> DEFINE p == last - 1
    <3>1. p \in Nat /\ nread <= p /\ p <= N /\ p + 1 = last
      BY <1>2, <2>2
    <3> HIDE DEF p
    <3>2. FramesTo(p) \in Seq(Frame) /\ Len(FramesTo(last)) <= Len(FramesTo(p)) + 1
      BY <3>1, FramesToFacts, FramesToStep
    <3>3. Len(FramesTo(p)) <= minDuration
      <4>1. CASE p = nread
        BY <1>3, <1>4, <4>1
      <4>2. CASE p # nread
        <5>1. p \in nread + 1 .. N /\ p \notin long
          BY <1>2, <2>1, <3>1, <4>2
        <5>2. ~(Lasting(FramesTo(p)) > minDuration)
          BY <5>1
        <5>3. Lasting(FramesTo(p)) = Len(FramesTo(p))
          BY <2>3, <3>1, SoundLasts
        <5> QED BY <1>3, <3>2, <5>2, <5>3
      <4> QED BY <4>1, <4>2
    <3>4. FramesTo(last) \in Seq(Frame)
      BY <2>2, FramesToFacts
    <3> QED BY <1>3, <3>2, <3>3, <3>4
  <2> QED BY <1>1, <2>2, <2>3
<1> QED BY <1>5, <1>6

-----------------------------------------------------------------------------
(* Types, order and accounting of the frames *)

Todo  == [op : {"none", "seek", "resume", "close"}, pos : Int, playMode : BOOLEAN]
Block == [op : {"decode", "seek"}, pos : Int, playMode : BOOLEAN]

TypeInv ==
  /\ MovieInv
  /\ nread \in Nat /\ seeks \in Nat
  /\ position \in Int /\ moviePosition \in Int /\ history \in Int
  /\ bufferedDuration \in Int /\ qload \in Int /\ aload \in Int
  /\ raced \in BOOLEAN
  /\ todo \in Todo /\ queue \in Seq(Block) /\ delayed \in Seq(Todo)
  /\ videoFrames \in Seq(Frame) /\ audioFrames \in Seq(Frame) /\ batch \in Seq(Frame)
  /\ shown \in Frame /\ heard \in Frame

(* f is not ahead of the demuxer. *)
Past(f) == f.seek < seeks \/ (f.seek = seeks /\ f.pkt <= nread)

AllAfter(f, s) == \A i \in 1 .. Len(s) : Before(f, s[i])

(* What waits to be presented is in order, and after what was. *)
Lane(done, frames) ==
  /\ Sorted(frames) /\ AllAfter(done, frames)
  /\ Past(done) /\ \A i \in 1 .. Len(frames) : Past(frames[i])

(* The batch comes after both. *)
BatchAfter(done, frames) ==
  /\ AllAfter(done, batch)
  /\ \A i \in 1 .. Len(frames) : AllAfter(frames[i], batch)

BatchInv ==
  /\ Sorted(batch)
  /\ \A i \in 1 .. Len(batch) :
       batch[i].seek = seeks /\ batch[i].pkt <= nread
  /\ ~HasVideo => AllSound(batch)
  /\ batch # <<>> => qpc \in {"add_video", "add_audio", "store"}

OrderInv ==
  /\ Lane(shown, videoFrames)
  /\ Lane(heard, audioFrames)
  /\ qpc = "add_video" => BatchAfter(shown, videoFrames)
  /\ qpc \in {"add_video", "add_audio"} => BatchAfter(heard, audioFrames)

(* Before the decoder is open there is nothing to count; the load of an    *)
(* update is current, and the two updates exclude each other.              *)
DurationInv ==
  /\ opened = "opening" =>
       /\ main \notin {"tick_some", "tick_none"}
       /\ queue = <<>> /\ qpc = "idle" /\ apc = "idle"
       /\ audioFrames = <<>> /\ bufferedDuration = 0
  /\ ~(Locked /\ apc = "store")
  /\ ~HasVideo /\ ~raced => /\ Locked => qload = bufferedDuration
                            /\ apc = "store" => aload = bufferedDuration
  /\ DurationExact

Decoding == qpc \in {"read", "add_video", "add_audio"}

(* A seek has emptied the buffer and has not reached the demuxer. *)
SeekWaits == \E i \in 1 .. Len(queue) : queue[i].op = "seek" /\ (i > 1 \/ qpc = "idle")
SeekPending == (main = "free_duration" /\ todo.op = "seek") \/ SeekWaits

(* From the frame CHUNK + 1 on every frame has a seek of its own. *)
Chain ==
  \A i \in CHUNK + 1 .. Len(audioFrames) - 1 :
     audioFrames[i].seek < audioFrames[i + 1].seek

LeftInv ==
  /\ ~HasVideo => Len(batch) <= (IF queue # <<>> /\ Head(queue).op = "seek" THEN 1 ELSE CHUNK + 1)
  /\ Decoding /\ Head(queue).op = "seek" =>
       \A i \in 1 .. Len(audioFrames) : audioFrames[i].seek < seeks
  /\ LeftoverBound
  /\ ~HasVideo /\ ~impatient /\ SeekPending =>
       /\ ~playing
       /\ Chain
       /\ Decoding /\ Head(queue).op = "decode" => audioFrames = <<>>


(* Init establishes the types. *)
LEMMA InitType == Init => TypeInv
<1> SUFFICES ASSUME Init PROVE TypeInv
  OBVIOUS
<1>1. MovieInv
  BY DEF Init, MovieInv
<1>2. history \in Int
  <2>1. PICK v \in Viewings : history = v.history
    BY DEF Init
  <2>2. v.history \in Nat \cup {NoHistory}
    BY KxAssumption
  <2> QED BY <2>1, <2>2 DEF NoHistory
<1>3. todo \in Todo
  BY DEF Init, NoTodo, Todo
<1>4. shown \in Frame /\ heard \in Frame
  BY DEF Init, NoFrame, Frame
<1>5. /\ queue \in Seq(Block) /\ delayed \in Seq(Todo)
      /\ videoFrames \in Seq(Frame) /\ audioFrames \in Seq(Frame) /\ batch \in Seq(Frame)
  BY DEF Init
<1>6. raced \in BOOLEAN
  BY DEF Init
<1> QED
  BY <1>1, <1>2, <1>3, <1>4, <1>5, <1>6 DEF Init, TypeInv

typeVars == <<movie, nread, seeks, position, moviePosition, history, bufferedDuration,
              qload, aload, raced, todo, queue, delayed, videoFrames, audioFrames,
              batch, shown, heard>>

(* A step that leaves them alone keeps the types. *)
LEMMA SameType == TypeInv /\ UNCHANGED typeVars => TypeInv'
BY DEF TypeInv, typeVars, MovieInv

(* A block joins the queue. *)
LEMMA AppendType ==
  ASSUME NEW S, NEW s \in Seq(S), NEW x \in S
  PROVE  Append(s, x) \in Seq(S)
OBVIOUS

(* VC 1006-1017 *)
LEMMA AsyncType ==
  ASSUME queue \in Seq(Block), asyncDecodeFrames
  PROVE  queue' \in Seq(Block)
<1>1. DecodeBlock \in Block
  BY DEF DecodeBlock, Block
<1>2. Append(queue, DecodeBlock) \in Seq(Block)
  BY <1>1, AppendType
<1> QED BY <1>2 DEF asyncDecodeFrames

(* play adds at most a decode block. *)
LEMMA PlayType ==
  ASSUME IInv, queue \in Seq(Block), play \/ UNCHANGED queue
  PROVE  queue' \in Seq(Block)
<1>1. CASE UNCHANGED queue
  BY <1>1
<1>2. CASE asyncDecodeFrames
  BY <1>2, AsyncType
<1> QED BY <1>1, <1>2, PlayStarts

(* D 1170-1187: a position is a number. *)
LEMMA PositionType ==
  ASSUME NEW f \in Frame
  PROVE  PositionOf(f) \in Int
BY DEF PositionOf, VideoTimeBase, Frame

(* The first frame of a sequence and the others. *)
LEMMA HeadTail ==
  ASSUME NEW S, NEW s \in Seq(S), s # <<>>
  PROVE  /\ Head(s) \in S /\ Tail(s) \in Seq(S)
         /\ Len(s) \in Nat \ {0} /\ Len(Tail(s)) = Len(s) - 1
         /\ Head(s) = s[1] /\ \A i \in 1 .. Len(Tail(s)) : Tail(s)[i] = s[i + 1]
OBVIOUS

(* VC 1139-1197: presentFrame keeps the types. *)
LEMMA PresentType ==
  ASSUME TypeInv, NEW pos \in Int, presentFrame(pos)
  PROVE  /\ shown' \in Frame /\ videoFrames' \in Seq(Frame) /\ bufferedDuration' \in Int
         /\ moviePosition' \in Int /\ audioFrames' = audioFrames /\ raced' = raced
<1>1. CASE ValidVideo /\ videoFrames # <<>>
  <2>1. Head(videoFrames) \in Frame /\ Tail(videoFrames) \in Seq(Frame)
    BY <1>1, HeadTail DEF TypeInv
  <2>2. PositionOf(Head(videoFrames)) \in Int
    BY <2>1, PositionType
  <2>3. bufferedDuration - VideoTimeBase \in Int
    BY DEF TypeInv, VideoTimeBase
  <2>4. /\ shown' = Head(videoFrames) /\ videoFrames' = Tail(videoFrames)
        /\ bufferedDuration' = bufferedDuration - VideoTimeBase
        /\ moviePosition' = PositionOf(Head(videoFrames))
        /\ UNCHANGED <<audioFrames, raced>>
    BY <1>1 DEF presentFrame
  <2> QED BY <2>1, <2>2, <2>3, <2>4
<1>2. CASE ~(ValidVideo /\ videoFrames # <<>>)
  BY <1>2 DEF presentFrame, TypeInv, frameVars
<1> QED BY <1>1, <1>2

(* VC 1391: the position of a seek is a number. *)
LEMMA SeekType ==
  ASSUME MovieInv, NEW pos \in Int, NEW mode \in BOOLEAN, updatePosition(pos, mode)
  PROVE  /\ todo' \in Todo /\ todo'.op = "seek"
         /\ videoFrames' = <<>> /\ main' = "free_audio"
         /\ UNCHANGED <<audioFrames, bufferedDuration, raced>>
<1>1. Duration \in Int
  BY MovieFacts DEF Duration
<1>2. SECOND \in Nat
  BY KxAssumption
<1>3. Smaller(Duration - SECOND, Larger(0, pos)) \in Int
  BY <1>1, <1>2 DEF Smaller, Larger
<1> QED BY <1>3 DEF updatePosition, freeBufferedFrames, SeekBlock, Todo

(* Every turn of main keeps the types. *)
LEMMA MainType == IInv /\ TypeInv /\ (MainStep \/ UserStep) => TypeInv'
<1> SUFFICES ASSUME IInv, TypeInv, MainStep \/ UserStep PROVE TypeInv'
  OBVIOUS
<1> USE DEF ctlVars, limitVars, frameVars, viewVars, timerVars, tickVars, queueVars, decVars,
        audioVars
<1>1. CASE setMovieDecoder \/ viewDidAppear \/ tickLeft
  <2>1. UNCHANGED typeVars
    BY <1>1 DEF setMovieDecoder, viewDidAppear, tickLeft, typeVars
  <2> QED BY <2>1, SameType
<1>2. CASE restorePlay
  <2>1. queue' \in Seq(Block)
    BY <1>2, PlayType DEF restorePlay, TypeInv
  <2>2. CASE Remembered
    <3>1. updatePosition(history, TRUE)
      BY <1>2, <2>2 DEF restorePlay
    <3>2. /\ todo' \in Todo /\ videoFrames' = <<>>
          /\ UNCHANGED <<audioFrames, bufferedDuration, raced>>
      BY <3>1, SeekType DEF TypeInv
    <3> QED BY <1>2, <2>1, <2>2, <3>2 DEF restorePlay, TypeInv, MovieInv
  <2>3. CASE ~Remembered
    BY <1>2, <2>1, <2>3 DEF restorePlay, TypeInv, MovieInv
  <2> QED BY <2>2, <2>3
<1>3. CASE viewWillDisappear
  <2>1. history' \in Int
    BY <1>3 DEF viewWillDisappear, TypeInv, NoHistory
  <2> QED BY <1>3, <2>1 DEF viewWillDisappear, TypeInv, MovieInv
<1>4. CASE playDidTouch
  <2>1. queue' \in Seq(Block)
    BY <1>4, PlayType DEF playDidTouch, TypeInv
  <2> QED BY <1>4, <2>1 DEF playDidTouch, Turn, TypeInv, MovieInv
<1>5. ASSUME NEW pos \in SeekTargets, setMoviePosition(pos) PROVE TypeInv'
  <2>1. SeekBlock(pos, playing) \in Todo
    BY KxAssumption DEF SeekBlock, Todo, IInv, SilenceInv
  <2>2. delayed' \in Seq(Todo)
    BY <1>5, <2>1 DEF setMoviePosition, TypeInv
  <2> QED BY <1>5, <2>2 DEF setMoviePosition, Turn, TypeInv, MovieInv
<1>6. CASE didReceiveMemoryWarning
  <2>1. todo' \in Todo
    <3>1. NoTodo \in Todo
      BY DEF NoTodo, Todo
    <3>2. /\ [NoTodo EXCEPT !.op = "resume"] \in Todo
          /\ [NoTodo EXCEPT !.op = "close"] \in Todo
      BY <3>1 DEF Todo
    <3>3. \/ todo' = [NoTodo EXCEPT !.op = "resume"]
          \/ todo' = [NoTodo EXCEPT !.op = "close"]
      BY <1>6 DEF didReceiveMemoryWarning, freeBufferedFrames
    <3> QED BY <3>2, <3>3
  <2> QED BY <1>6, <2>1 DEF didReceiveMemoryWarning, freeBufferedFrames, Turn,
             TypeInv, MovieInv
<1>7. CASE sessionInterruptionListener
  <2>1. UNCHANGED typeVars
    BY <1>7 DEF sessionInterruptionListener, Turn, typeVars
  <2> QED BY <2>1, SameType
<1>8. CASE delayedPosition
  <2>1. Head(delayed) \in Todo /\ delayed' \in Seq(Todo)
    BY <1>8, HeadTail DEF delayedPosition, TypeInv
  <2>2. Head(delayed).pos \in Int /\ Head(delayed).playMode \in BOOLEAN
    BY <2>1 DEF Todo
  <2>3. /\ todo' \in Todo /\ videoFrames' = <<>>
        /\ UNCHANGED <<audioFrames, bufferedDuration, raced>>
    BY <1>8, <2>2, SeekType DEF delayedPosition, TypeInv
  <2> QED BY <1>8, <2>1, <2>3 DEF delayedPosition, TypeInv, MovieInv
<1>9. CASE freeAudio
  BY <1>9 DEF freeAudio, TypeInv, MovieInv
<1>10. CASE freeDuration
  <2>1. todo' \in Todo
    BY <1>10 DEF freeDuration, NoTodo, Todo
  <2>2. queue' \in Seq(Block)
    <3>1. CASE todo.op = "seek"
      <4>1. todo \in Block
        BY <3>1 DEF TypeInv, Todo, Block
      <4>2. Append(queue, todo) \in Seq(Block)
        BY <4>1, AppendType DEF TypeInv
      <4> QED BY <1>10, <3>1, <4>2 DEF freeDuration, TypeInv
    <3>2. CASE todo.op # "seek"
      BY <1>10, <3>2, PlayType DEF freeDuration, TypeInv
    <3> QED BY <3>1, <3>2
  <2>3. raced' \in BOOLEAN /\ bufferedDuration' \in Int
    BY <1>10 DEF freeDuration
  <2> QED BY <1>10, <2>1, <2>2, <2>3 DEF freeDuration, TypeInv, MovieInv
<1>11. CASE seekDone
  <2>1. queue' \in Seq(Block)
    BY <1>11, PlayType DEF seekDone, TypeInv
  <2>2. CASE Head(sent)
    BY <1>11, <2>1, <2>2 DEF seekDone, TypeInv, MovieInv
  <2>3. CASE ~Head(sent)
    <3>1. /\ shown' \in Frame /\ videoFrames' \in Seq(Frame) /\ bufferedDuration' \in Int
          /\ moviePosition' \in Int /\ audioFrames' = audioFrames /\ raced' = raced
      BY <1>11, <2>3, PresentType DEF seekDone, TypeInv
    <3> QED BY <1>11, <2>1, <3>1 DEF seekDone, TypeInv, MovieInv
  <2> QED BY <2>2, <2>3
<1>12. CASE tick
  <2>1. CASE buffered'
    <3>1. UNCHANGED typeVars
      BY <1>12, <2>1 DEF tick, typeVars
    <3> QED BY <3>1, SameType
  <2>2. CASE ~buffered'
    <3>1. /\ shown' \in Frame /\ videoFrames' \in Seq(Frame) /\ bufferedDuration' \in Int
          /\ moviePosition' \in Int /\ audioFrames' = audioFrames /\ raced' = raced
      BY <1>12, <2>2, PresentType DEF tick, TypeInv
    <3> QED BY <1>12, <3>1 DEF tick, TypeInv, MovieInv
  <2> QED BY <2>1, <2>2
<1>13. CASE tickEnds
  <2>1. UNCHANGED typeVars
    BY <1>13 DEF tickEnds, tickKeeps, typeVars
  <2> QED BY <2>1, SameType
<1>14. CASE tickAgain
  <2>1. queue' \in Seq(Block)
    <3>1. asyncDecodeFrames \/ queue' = queue
      BY <1>14 DEF tickAgain
    <3> QED BY <3>1, AsyncType DEF TypeInv
  <2> QED BY <1>14, <2>1 DEF tickAgain, tickKeeps, TypeInv, MovieInv
<1> QED
  BY <1>1, <1>2, <1>3, <1>4, <1>5, <1>6, <1>7, <1>8, <1>9, <1>10, <1>11, <1>12,
     <1>13, <1>14 DEF MainStep, UserStep

(* A call of decodeFrames on an open decoder, seen from outside. *)
BatchIs(n) ==
  /\ n \in Nat /\ nread <= n /\ (n <= Len(movie.packets) \/ n = nread)
  /\ nread' = n /\ batch' = FramesTo(n)
  /\ ~HasVideo => Len(FramesTo(n)) <= minDuration + 1

(* Every step of the queue keeps the types. *)
LEMMA QueueType == IInv /\ TypeInv /\ QueueStep => TypeInv'
<1> SUFFICES ASSUME IInv, TypeInv, QueueStep PROVE TypeInv'
  OBVIOUS
<1> USE DEF frameVars, viewVars, decVars, audioVars, queueKeeps
<1>1. CASE decodeStart
  <2>1. queue' \in Seq(Block)
    <3>1. queue # <<>> /\ (queue' = queue \/ queue' = Tail(queue))
      BY <1>1 DEF decodeStart
    <3> QED BY <3>1, HeadTail DEF TypeInv
  <2> QED BY <1>1, <2>1 DEF decodeStart, TypeInv, MovieInv
<1>2. CASE setPosition
  <2>1. Head(queue).pos \in Int
    <3>1. Head(queue) \in Block
      BY <1>2, HeadTail DEF setPosition, TypeInv
    <3> QED BY <3>1 DEF Block
  <2>2. nread' \in Nat /\ seeks' \in Nat /\ position' \in Int
    BY <1>2, <2>1 DEF setPosition, TypeInv, Larger
  <2> QED BY <1>2, <2>2 DEF setPosition, TypeInv, MovieInv
<1>3. CASE decodeFrames
  <2>1. CASE opened = "open"
    <3>1. PICK n : BatchIs(n)
      BY <1>3, <2>1, ReadsBatch DEF TypeInv, BatchIs
    <3>2. nread' \in Nat /\ batch' \in Seq(Frame)
      BY <3>1, FramesToFacts DEF BatchIs, TypeInv
    <3>3. position' \in Int
      <4> DEFINE type == IF HasVideo THEN "video" ELSE "audio"
                 timed == Only(type, batch')
      <4>1. position' = IF timed = <<>> THEN position ELSE PositionOf(timed[Len(timed)])
        BY <1>3, <2>1 DEF decodeFrames
      <4>2. timed \in Seq(Frame)
        BY <3>2, OnlyFacts
      <4> HIDE DEF timed
      <4>3. CASE timed = <<>>
        BY <4>1, <4>3 DEF TypeInv
      <4>4. CASE timed # <<>>
        <5>1. timed[Len(timed)] \in Frame
          BY <4>2, <4>4
        <5> QED BY <4>1, <4>4, <5>1, PositionType
      <4> QED BY <4>3, <4>4
    <3>4. UNCHANGED <<seeks, movie, moviePosition, history, todo, delayed, aload, heard,
                      shown, qload, queue, videoFrames, audioFrames, bufferedDuration, raced>>
      BY <1>3, <2>1 DEF decodeFrames
    <3> QED BY <3>2, <3>3, <3>4 DEF TypeInv, MovieInv
  <2>2. CASE opened # "open"
    <3>1. UNCHANGED typeVars
      BY <1>3, <2>2 DEF decodeFrames, typeVars
    <3> QED BY <3>1, SameType
  <2> QED BY <2>1, <2>2
<1>4. CASE addPictures
  <2>1. Only("video", batch) \in Seq(Frame)
    BY OnlyFacts DEF TypeInv
  <2>2. videoFrames' \in Seq(Frame)
    BY <1>4, <2>1 DEF addPictures, TypeInv
  <2>3. ValidVideo => Lasting(batch) \in Int
    BY <2>1 DEF Lasting, ValidVideo, VideoTimeBase
  <2>4. bufferedDuration' \in Int
    BY <1>4, <2>3 DEF addPictures, TypeInv
  <2> QED BY <1>4, <2>2, <2>4 DEF addPictures, TypeInv, MovieInv
<1>5. CASE addSound
  <2>1. Only("audio", batch) \in Seq(Frame)
    BY OnlyFacts DEF TypeInv
  <2>2. audioFrames' \in Seq(Frame)
    BY <1>5, <2>1 DEF addSound, TypeInv
  <2> QED BY <1>5, <2>2 DEF addSound, TypeInv, MovieInv
<1>6. CASE addDuration
  <2>1. Only("audio", batch) \in Seq(Frame) /\ Only("video", batch) \in Seq(Frame)
    BY OnlyFacts DEF TypeInv
  <2>2. Lasting(batch) \in Int
    BY <2>1 DEF Lasting, VideoTimeBase
  <2>3. bufferedDuration' \in Int /\ batch' \in Seq(Frame) /\ qload' \in Int
    BY <1>6, <2>2 DEF addDuration, TypeInv
  <2> QED BY <1>6, <2>3 DEF addDuration, TypeInv, MovieInv
<1>7. CASE decodeMore
  <2>1. UNCHANGED typeVars
    BY <1>7 DEF decodeMore, typeVars
  <2> QED BY <2>1, SameType
<1>8. CASE finishBlock
  <2>1. queue # <<>> /\ queue' = Tail(queue)
    BY <1>8 DEF finishBlock, IInv, QueueInv
  <2>2. queue' \in Seq(Block)
    BY <2>1, HeadTail DEF TypeInv
  <2> QED BY <1>8, <2>2 DEF finishBlock, TypeInv, MovieInv
<1> QED
  BY <1>1, <1>2, <1>3, <1>4, <1>5, <1>6, <1>7, <1>8 DEF QueueStep

(* Every step of the audio thread keeps the types. *)
LEMMA AudioType == TypeInv /\ AudioStep => TypeInv'
<1> SUFFICES ASSUME TypeInv, AudioStep PROVE TypeInv'
  OBVIOUS
<1> USE DEF audioKeeps, viewVars, timerVars, tickVars, queueVars, decVars
<1>1. CASE fillBesideVideo
  <2>1. Head(audioFrames) \in Frame /\ Tail(audioFrames) \in Seq(Frame)
    BY <1>1, HeadTail DEF fillBesideVideo, TypeInv
  <2>2. heard' \in Frame
    BY <1>1, <2>1 DEF fillBesideVideo, TypeInv
  <2> QED BY <1>1, <2>1, <2>2 DEF fillBesideVideo, TypeInv, MovieInv
<1>2. CASE fillAlone
  <2>1. Head(audioFrames) \in Frame /\ Tail(audioFrames) \in Seq(Frame)
    BY <1>2, HeadTail DEF fillAlone, TypeInv
  <2>2. PositionOf(Head(audioFrames)) \in Int
    BY <2>1, PositionType
  <2> QED BY <1>2, <2>1, <2>2 DEF fillAlone, TypeInv, MovieInv
<1>3. CASE fillDuration
  BY <1>3 DEF fillDuration, TypeInv, MovieInv
<1> QED
  BY <1>1, <1>2, <1>3 DEF AudioStep

(* Every step keeps the types. *)
LEMMA StepType == IInv /\ TypeInv /\ [Next]_vars => TypeInv'
<1>1. TypeInv /\ UNCHANGED vars => TypeInv'
  <2> SUFFICES ASSUME TypeInv, UNCHANGED vars PROVE TypeInv'
    OBVIOUS
  <2>1. UNCHANGED typeVars
    BY DEF vars, typeVars, ctlVars, limitVars, frameVars, viewVars, timerVars, tickVars, queueVars,
       decVars, audioVars
  <2> QED BY <2>1, SameType
<1> QED
  BY <1>1, MainType, QueueType, AudioType DEF Next

(* What is presented is taken from the front, or everything is dropped. *)
Taken(done, frames) ==
  \/ done' = done /\ frames' = frames
  \/ done' = done /\ frames' = <<>>
  \/ frames # <<>> /\ done' \in {done, Head(frames)} /\ frames' = Tail(frames)

(* presentFrame and freeBufferedFrames do nothing else to the pictures. *)
LEMMA PresentTakes ==
  ASSUME NEW pos, presentFrame(pos)
  PROVE  Taken(shown, videoFrames)
BY DEF presentFrame, Taken, frameVars

(* Main takes pictures and drops frames; it does not touch the batch. *)
LEMMA MainTakes ==
  ASSUME MainStep \/ UserStep
  PROVE  /\ UNCHANGED <<movie, batch, qpc, seeks, nread, heard>>
         /\ Taken(shown, videoFrames)
         /\ audioFrames' = audioFrames \/ audioFrames' = <<>>
<1> USE DEF frameVars, queueVars, decVars, audioVars
<1>1. CASE setMovieDecoder \/ viewDidAppear \/ viewWillDisappear
  BY <1>1 DEF setMovieDecoder, viewDidAppear, viewWillDisappear, Taken
<1>2. CASE playDidTouch \/ sessionInterruptionListener
           \/ (\E pos \in SeekTargets : setMoviePosition(pos))
  BY <1>2 DEF playDidTouch, sessionInterruptionListener, setMoviePosition, Turn, Taken
<1>3. CASE didReceiveMemoryWarning
  BY <1>3 DEF didReceiveMemoryWarning, Turn, freeBufferedFrames, Taken
<1>4. CASE restorePlay
  BY <1>4 DEF restorePlay, updatePosition, freeBufferedFrames, Taken
<1>5. CASE delayedPosition \/ freeAudio \/ freeDuration
  BY <1>5 DEF delayedPosition, updatePosition, freeBufferedFrames, freeAudio, freeDuration,
     Taken
<1>6. CASE seekDone
  <2>1. Taken(shown, videoFrames) /\ audioFrames' = audioFrames
    <3>1. CASE Head(sent)
      BY <1>6, <3>1 DEF seekDone, Taken
    <3>2. CASE ~Head(sent)
      BY <1>6, <3>2, PresentTakes DEF seekDone, presentFrame
    <3> QED BY <3>1, <3>2
  <2> QED BY <1>6, <2>1 DEF seekDone
<1>7. CASE tick
  <2>1. Taken(shown, videoFrames) /\ audioFrames' = audioFrames
    <3>1. CASE buffered'
      BY <1>7, <3>1 DEF tick, Taken
    <3>2. CASE ~buffered'
      BY <1>7, <3>2, PresentTakes DEF tick, presentFrame
    <3> QED BY <3>1, <3>2
  <2> QED BY <1>7, <2>1 DEF tick
<1>8. CASE tickLeft \/ tickEnds \/ tickAgain
  BY <1>8 DEF tickLeft, tickEnds, tickAgain, tickKeeps, Taken
<1> QED
  BY <1>1, <1>2, <1>3, <1>4, <1>5, <1>6, <1>7, <1>8 DEF MainStep, UserStep

(* So does the audio thread with the sound. *)
LEMMA AudioTakes ==
  ASSUME AudioStep
  PROVE  /\ UNCHANGED <<movie, batch, qpc, seeks, nread, shown, videoFrames>>
         /\ Taken(heard, audioFrames)
<1> USE DEF audioKeeps, queueVars, decVars
<1>1. CASE fillBesideVideo
  BY <1>1 DEF fillBesideVideo, Taken
<1>2. CASE fillAlone
  BY <1>2 DEF fillAlone, Taken
<1>3. CASE fillDuration
  BY <1>3 DEF fillDuration, Taken
<1> QED
  BY <1>1, <1>2, <1>3 DEF AudioStep

(* Taking from a lane leaves a lane, and the batch behind it. *)
LEMMA TakenKeeps ==
  ASSUME NEW done \in Frame, NEW frames \in Seq(Frame), Lane(done, frames),
         NEW done2, NEW frames2,
         \/ done2 = done /\ frames2 = frames
         \/ done2 = done /\ frames2 = <<>>
         \/ frames # <<>> /\ done2 \in {done, Head(frames)} /\ frames2 = Tail(frames)
  PROVE  /\ Lane(done2, frames2)
         /\ BatchAfter(done, frames) => BatchAfter(done2, frames2)
<1>1. CASE frames2 = <<>> /\ done2 = done
  BY <1>1 DEF Lane, BatchAfter, Sorted, AllAfter
<1>2. CASE frames # <<>> /\ done2 \in {done, Head(frames)} /\ frames2 = Tail(frames)
  <2>1. /\ Len(frames) \in Nat \ {0} /\ Len(frames2) = Len(frames) - 1
        /\ Head(frames) = frames[1] /\ \A i \in 1 .. Len(frames2) : frames2[i] = frames[i + 1]
    BY <1>2, HeadTail
  <2>2. Sorted(frames2)
    BY <2>1 DEF Lane, Sorted
  <2>3. \A i \in 1 .. Len(frames2) : i + 1 \in 1 .. Len(frames) /\ 1 \in 1 .. Len(frames)
    BY <2>1
  <2>4. ASSUME NEW i \in 1 .. Len(frames2)
        PROVE  Before(done, frames2[i]) /\ Before(frames[1], frames2[i])
    <3>1. frames2[i] = frames[i + 1] /\ i + 1 \in 1 .. Len(frames) /\ 1 < i + 1
      BY <2>1, <2>3
    <3>2. Before(done, frames[i + 1])
      BY <3>1 DEF Lane, AllAfter
    <3>3. Before(frames[1], frames[i + 1])
      BY <2>3, <3>1 DEF Lane, Sorted
    <3> QED BY <3>1, <3>2, <3>3
  <2>5. done2 = done \/ done2 = frames[1]
    BY <1>2, <2>1
  <2>6. AllAfter(done2, frames2)
    BY <2>4, <2>5 DEF AllAfter
  <2>7. 1 \in 1 .. Len(frames)
    BY <2>1
  <2>8. Past(done2)
    BY <2>5, <2>7 DEF Lane
  <2>9. \A i \in 1 .. Len(frames2) : Past(frames2[i])
    BY <2>1, <2>3 DEF Lane
  <2>10. BatchAfter(done, frames) => BatchAfter(done2, frames2)
    <3> SUFFICES ASSUME BatchAfter(done, frames) PROVE BatchAfter(done2, frames2)
      OBVIOUS
    <3>1. AllAfter(done2, batch)
      BY <2>5, <2>7 DEF BatchAfter
    <3>2. ASSUME NEW i \in 1 .. Len(frames2) PROVE AllAfter(frames2[i], batch)
      BY <2>1, <2>3 DEF BatchAfter
    <3> QED BY <3>1, <3>2 DEF BatchAfter
  <2> QED BY <2>2, <2>6, <2>8, <2>9, <2>10 DEF Lane
<1> QED BY <1>1, <1>2

(* Taking frames keeps the order. *)
LEMMA TakingKeepsOrder ==
  ASSUME TypeInv, BatchInv, OrderInv, UNCHANGED <<movie, batch, qpc, seeks, nread>>,
         Taken(shown, videoFrames), Taken(heard, audioFrames)
  PROVE  BatchInv' /\ OrderInv'
<1>1. BatchInv'
  BY DEF BatchInv, AllSound, HasVideo
<1>2. /\ Lane(shown', videoFrames')
      /\ BatchAfter(shown, videoFrames) => BatchAfter(shown', videoFrames')
  BY TakenKeeps DEF TypeInv, OrderInv, Taken
<1>3. /\ Lane(heard', audioFrames')
      /\ BatchAfter(heard, audioFrames) => BatchAfter(heard', audioFrames')
  BY TakenKeeps DEF TypeInv, OrderInv, Taken
<1>4. Lane(shown, videoFrames)' /\ Lane(heard, audioFrames)'
  BY <1>2, <1>3 DEF Lane, Past
<1>5. /\ BatchAfter(shown, videoFrames) => BatchAfter(shown, videoFrames)'
      /\ BatchAfter(heard, audioFrames) => BatchAfter(heard, audioFrames)'
  BY <1>2, <1>3 DEF BatchAfter, AllAfter
<1> QED BY <1>1, <1>4, <1>5 DEF OrderInv

(* A seek turns everything there is into the past. *)
LEMMA SeekKeepsLane ==
  ASSUME NEW done \in Frame, NEW frames \in Seq(Frame), Lane(done, frames),
         seeks \in Nat, nread \in Nat, NEW s, s = seeks + 1
  PROVE  done.seek < s /\ \A i \in 1 .. Len(frames) : frames[i].seek < s
<1>1. ASSUME NEW f \in Frame, Past(f) PROVE f.seek < s
  BY <1>1 DEF Past, Frame
<1> QED BY <1>1 DEF Lane

(* The past comes before what is read next. *)
LEMMA PastBefore ==
  ASSUME NEW f \in Frame, Past(f), seeks \in Nat, nread \in Nat,
         NEW n \in Nat, NEW g \in Frame, g.seek = seeks, g.pkt \in nread + 1 .. n
  PROVE  Before(f, g)
BY DEF Past, Before, Frame

(* Frames of the batch, in order and after a lane, may join it. *)
LEMMA LaneGrows ==
  ASSUME NEW done \in Frame, NEW frames \in Seq(Frame), NEW more \in Seq(Frame),
         Lane(done, frames), BatchAfter(done, frames), Sorted(more),
         \A j \in 1 .. Len(more) : \E i \in 1 .. Len(batch) : more[j] = batch[i],
         \A i \in 1 .. Len(batch) : batch[i].seek = seeks /\ batch[i].pkt <= nread
  PROVE  Lane(done, frames \o more)
<1> DEFINE s == frames \o more
           m == Len(frames)
           k == Len(more)
<1>1. /\ m \in Nat /\ k \in Nat /\ Len(s) = m + k
      /\ \A i \in 1 .. m : s[i] = frames[i]
      /\ \A i \in 1 .. Len(s) : i > m => s[i] = more[i - m] /\ i - m \in 1 .. k
  OBVIOUS
<1>2. \A j \in 1 .. k : /\ Past(more[j]) /\ Before(done, more[j])
                        /\ \A i \in 1 .. m : Before(frames[i], more[j])
  BY DEF Past, BatchAfter, AllAfter
<1>3. /\ \A i, j \in 1 .. m : i < j => Before(frames[i], frames[j])
      /\ \A i, j \in 1 .. k : i < j => Before(more[i], more[j])
      /\ \A i \in 1 .. m : Before(done, frames[i]) /\ Past(frames[i])
      /\ Past(done)
  BY DEF Lane, Sorted, AllAfter
<1> HIDE DEF s, m, k
<1>4. ASSUME NEW i \in 1 .. Len(s) PROVE Before(done, s[i]) /\ Past(s[i])
  <2>1. CASE i <= m
    BY <1>1, <1>3, <2>1
  <2>2. CASE i > m
    BY <1>1, <1>2, <2>2
  <2> QED BY <1>1, <2>1, <2>2
<1>5. ASSUME NEW i \in 1 .. Len(s), NEW j \in 1 .. Len(s), i < j PROVE Before(s[i], s[j])
  <2>1. CASE j <= m
    <3>1. i \in 1 .. m /\ j \in 1 .. m
      BY <1>1, <1>5, <2>1
    <3> QED BY <1>1, <1>3, <1>5, <3>1
  <2>2. CASE i <= m /\ j > m
    <3>1. i \in 1 .. m /\ j - m \in 1 .. k /\ s[j] = more[j - m] /\ s[i] = frames[i]
      BY <1>1, <1>5, <2>2
    <3> QED BY <1>2, <3>1
  <2>3. CASE i > m
    <3>1. /\ i - m \in 1 .. k /\ j - m \in 1 .. k /\ i - m < j - m
          /\ s[i] = more[i - m] /\ s[j] = more[j - m]
      BY <1>1, <1>5, <2>3
    <3> QED BY <1>3, <3>1
  <2> QED BY <1>1, <2>1, <2>2, <2>3
<1>6. Lane(done, s)
  BY <1>3, <1>4, <1>5 DEF Lane, Sorted, AllAfter
<1> QED BY <1>6 DEF s

(* Every step of the queue keeps the order. *)
LEMMA QueueOrder ==
  ASSUME IInv, TypeInv, BatchInv, OrderInv, QueueStep
  PROVE  BatchInv' /\ OrderInv'
<1> USE DEF frameVars, decVars, audioVars, queueKeeps
<1>1. CASE decodeStart \/ decodeMore \/ finishBlock
  <2>1. /\ UNCHANGED <<movie, batch, seeks, nread, shown, videoFrames, heard, audioFrames>>
        /\ qpc' \in {"idle", "read", "finish"} /\ qpc \notin {"add_video", "add_audio", "store"}
    BY <1>1 DEF decodeStart, decodeMore, finishBlock, callDecodeFrames
  <2>2. batch = <<>>
    BY <2>1 DEF BatchInv
  <2>3. BatchInv'
    BY <2>1, <2>2 DEF BatchInv, AllSound, HasVideo
  <2>4. OrderInv'
    BY <2>1 DEF OrderInv, Lane, Past
  <2> QED BY <2>3, <2>4
<1>2. CASE setPosition
  <2>1. /\ UNCHANGED <<movie, batch, shown, videoFrames, heard, audioFrames>>
        /\ qpc' \in {"read", "finish"} /\ qpc = "idle" /\ seeks' = seeks + 1
    BY <1>2 DEF setPosition, callDecodeFrames
  <2>2. batch = <<>>
    BY <2>1 DEF BatchInv
  <2>3. BatchInv'
    BY <2>1, <2>2 DEF BatchInv, AllSound, HasVideo, Sorted
  <2>4. Lane(shown, videoFrames) /\ Lane(heard, audioFrames)
    BY DEF OrderInv
  <2>5. /\ shown.seek < seeks' /\ heard.seek < seeks'
        /\ \A i \in 1 .. Len(videoFrames) : videoFrames[i].seek < seeks'
        /\ \A i \in 1 .. Len(audioFrames) : audioFrames[i].seek < seeks'
    BY <2>1, <2>4, SeekKeepsLane DEF TypeInv
  <2>6. Lane(shown, videoFrames)' /\ Lane(heard, audioFrames)'
    BY <2>1, <2>4, <2>5 DEF Lane, Past
  <2>7. OrderInv'
    BY <2>1, <2>6 DEF OrderInv
  <2> QED BY <2>3, <2>7
<1>3. CASE decodeFrames
  <2>1. CASE opened = "open"
    <3>1. PICK n : BatchIs(n)
      BY <1>3, <2>1, ReadsBatch DEF TypeInv, BatchIs
    <3>2. /\ n \in Nat /\ nread <= n /\ nread' = n /\ batch' = FramesTo(n)
          /\ n <= Len(movie.packets) \/ n = nread
      BY <3>1 DEF BatchIs
    <3>3. /\ batch' \in Seq(Frame) /\ Sorted(batch')
          /\ \A i \in 1 .. Len(batch') : batch'[i].seek = seeks /\ batch'[i].pkt \in nread + 1 .. n
      BY <3>2, FramesToFacts DEF TypeInv
    <3>4. ~HasVideo => AllSound(batch')
      BY <3>2, SoundLasts DEF TypeInv
    <3>5. /\ UNCHANGED <<movie, seeks, shown, videoFrames, heard, audioFrames>>
          /\ qpc' = IF batch' = <<>> THEN "finish"
                    ELSE IF ValidVideo THEN "add_video" ELSE "add_audio"
      BY <1>3, <2>1 DEF decodeFrames
    <3>6. BatchInv'
      <4>1. \A i \in 1 .. Len(batch') : batch'[i].seek = seeks' /\ batch'[i].pkt <= nread'
        BY <3>2, <3>3, <3>5 DEF TypeInv
      <4>2. Sorted(batch)' /\ (~HasVideo => AllSound(batch))'
        BY <3>3, <3>4, <3>5 DEF Sorted, AllSound, HasVideo
      <4>3. batch' # <<>> => qpc' \in {"add_video", "add_audio", "store"}
        BY <3>5
      <4> QED BY <4>1, <4>2, <4>3 DEF BatchInv
    <3>7. ASSUME NEW f \in Frame, Past(f) PROVE Past(f)' /\ AllAfter(f, batch')
      <4>1. Past(f)'
        BY <3>2, <3>5, <3>7 DEF Past, Frame, TypeInv
      <4>2. ASSUME NEW i \in 1 .. Len(batch') PROVE Before(f, batch'[i])
        BY <3>2, <3>3, <3>7, PastBefore DEF TypeInv
      <4> QED BY <4>1, <4>2 DEF AllAfter
    <3>8. ASSUME NEW done \in Frame, NEW frames \in Seq(Frame), Lane(done, frames)
          PROVE  /\ Past(done)' /\ \A i \in 1 .. Len(frames) : Past(frames[i])'
                 /\ AllAfter(done, batch')
                 /\ \A i \in 1 .. Len(frames) : AllAfter(frames[i], batch')
      BY <3>7, <3>8 DEF Lane
    <3>9. /\ Lane(shown, videoFrames)' /\ BatchAfter(shown, videoFrames)'
          /\ Lane(heard, audioFrames)' /\ BatchAfter(heard, audioFrames)'
      <4>1. /\ Lane(shown, videoFrames) /\ Lane(heard, audioFrames)
            /\ shown \in Frame /\ heard \in Frame
            /\ videoFrames \in Seq(Frame) /\ audioFrames \in Seq(Frame)
        BY DEF OrderInv, TypeInv
      <4>2. Lane(shown, videoFrames)' /\ BatchAfter(shown, videoFrames)'
        BY <3>5, <3>8, <4>1 DEF Lane, BatchAfter, AllAfter, Past
      <4>3. Lane(heard, audioFrames)' /\ BatchAfter(heard, audioFrames)'
        BY <3>5, <3>8, <4>1 DEF Lane, BatchAfter, AllAfter, Past
      <4> QED BY <4>2, <4>3
    <3> QED BY <3>6, <3>9 DEF OrderInv
  <2>2. CASE opened # "open"
    <3>1. UNCHANGED <<movie, batch, qpc, seeks, nread, shown, videoFrames, heard, audioFrames>>
      BY <1>3, <2>2 DEF decodeFrames
    <3> QED BY <3>1, TakingKeepsOrder DEF Taken
  <2> QED BY <2>1, <2>2
<1>4. CASE addPictures
  <2> DEFINE more == Only("video", batch)
  <2>1. /\ UNCHANGED <<movie, batch, seeks, nread, shown, heard, audioFrames>>
        /\ qpc = "add_video" /\ qpc' = "add_audio"
    BY <1>4 DEF addPictures
  <2>7. videoFrames' = videoFrames \o more \/ videoFrames' = videoFrames
    BY <1>4 DEF addPictures
  <2>2. BatchInv'
    BY <2>1 DEF BatchInv, AllSound, HasVideo
  <2>3. /\ more \in Seq(Frame) /\ Sorted(more)
        /\ \A j \in 1 .. Len(more) : \E i \in 1 .. Len(batch) : more[j] = batch[i]
    <3>1. batch \in Seq(Frame) /\ Sorted(batch)
      BY DEF TypeInv, BatchInv
    <3> HIDE DEF TypeInv, BatchInv
    <3> QED BY <3>1, OnlyFacts
  <2> HIDE DEF more
  <2>4. Lane(shown, videoFrames \o more)
    BY <2>1, <2>3, LaneGrows DEF TypeInv, BatchInv, OrderInv
  <2>5. Lane(shown, videoFrames)' /\ Lane(heard, audioFrames)'
    <3>1. Lane(heard, audioFrames)'
      BY <2>1 DEF OrderInv, Lane, Past
    <3>2. CASE videoFrames' = videoFrames \o more
      BY <2>1, <2>4, <3>1, <3>2 DEF Lane, Past
    <3>3. CASE videoFrames' = videoFrames
      BY <2>1, <3>1, <3>3 DEF OrderInv, Lane, Past
    <3> QED BY <2>7, <3>2, <3>3
  <2>6. BatchAfter(heard, audioFrames)'
    BY <2>1 DEF OrderInv, BatchAfter, AllAfter
  <2> QED BY <2>1, <2>2, <2>5, <2>6 DEF OrderInv
<1>5. CASE addSound
  <2> DEFINE more == Only("audio", batch)
  <2>1. /\ UNCHANGED <<movie, batch, seeks, nread, shown, heard, videoFrames>>
        /\ audioFrames' = audioFrames \o more \/ audioFrames' = audioFrames
        /\ qpc = "add_audio" /\ qpc' = "store"
    BY <1>5 DEF addSound
  <2>2. BatchInv'
    BY <2>1 DEF BatchInv, AllSound, HasVideo
  <2>3. /\ more \in Seq(Frame) /\ Sorted(more)
        /\ \A j \in 1 .. Len(more) : \E i \in 1 .. Len(batch) : more[j] = batch[i]
    BY OnlyFacts DEF TypeInv, BatchInv
  <2> HIDE DEF more
  <2>4. Lane(heard, audioFrames \o more)
    BY <2>1, <2>3, LaneGrows DEF TypeInv, BatchInv, OrderInv
  <2>5. Lane(shown, videoFrames)' /\ Lane(heard, audioFrames)'
    BY <2>1, <2>4 DEF OrderInv, Lane, Past
  <2> QED BY <2>1, <2>2, <2>5 DEF OrderInv
<1>6. CASE addDuration
  <2>1. /\ UNCHANGED <<movie, seeks, nread, shown, videoFrames, heard, audioFrames>>
        /\ batch' = <<>> /\ qpc' = "more"
    BY <1>6 DEF addDuration
  <2>2. BatchInv'
    BY <2>1 DEF BatchInv, AllSound, Sorted
  <2>3. OrderInv'
    BY <2>1 DEF OrderInv, Lane, Past
  <2> QED BY <2>2, <2>3
<1> QED
  BY <1>1, <1>2, <1>3, <1>4, <1>5, <1>6 DEF QueueStep

(* Every step keeps the order. *)
LEMMA StepOrder == IInv /\ TypeInv /\ BatchInv /\ OrderInv /\ [Next]_vars => BatchInv' /\ OrderInv'
<1> SUFFICES ASSUME IInv, TypeInv, BatchInv, OrderInv, [Next]_vars PROVE BatchInv' /\ OrderInv'
  OBVIOUS
<1>1. CASE MainStep \/ UserStep
  <2>1. /\ UNCHANGED <<movie, batch, qpc, seeks, nread, heard>>
        /\ Taken(shown, videoFrames)
        /\ audioFrames' = audioFrames \/ audioFrames' = <<>>
    BY <1>1, MainTakes
  <2>2. Taken(heard, audioFrames)
    BY <2>1 DEF Taken
  <2> QED BY <2>1, <2>2, TakingKeepsOrder
<1>2. CASE QueueStep
  BY <1>2, QueueOrder
<1>3. CASE AudioStep
  <2>1. /\ UNCHANGED <<movie, batch, qpc, seeks, nread, shown, videoFrames>>
        /\ Taken(heard, audioFrames)
    BY <1>3, AudioTakes
  <2>2. Taken(shown, videoFrames)
    BY <2>1 DEF Taken
  <2> QED BY <2>1, <2>2, TakingKeepsOrder
<1>4. CASE UNCHANGED vars
  <2>1. UNCHANGED <<movie, batch, qpc, seeks, nread, shown, videoFrames, heard, audioFrames>>
    BY <1>4 DEF vars, frameVars, queueVars, decVars, audioVars
  <2> QED BY <2>1, TakingKeepsOrder DEF Taken
<1> QED
  BY <1>1, <1>2, <1>3, <1>4 DEF Next

(* What is presented next comes after what was presented last. *)
LEMMA StepForward ==
  IInv /\ TypeInv /\ OrderInv /\ [Next]_vars =>
    /\ shown' # shown => Before(shown, shown')
    /\ heard' # heard => Before(heard, heard')
<1> SUFFICES ASSUME IInv, TypeInv, OrderInv, [Next]_vars
             PROVE  /\ shown' # shown => Before(shown, shown')
                    /\ heard' # heard => Before(heard, heard')
  OBVIOUS
<1>1. ASSUME NEW done \in Frame, NEW frames \in Seq(Frame), Lane(done, frames), frames # <<>>
      PROVE  Before(done, Head(frames))
  <2>1. Head(frames) = frames[1] /\ 1 \in 1 .. Len(frames)
    BY <1>1
  <2> QED BY <1>1, <2>1 DEF Lane, AllAfter
<1>2. Taken(shown, videoFrames) => (shown' # shown => Before(shown, shown'))
  BY <1>1 DEF Taken, TypeInv, OrderInv
<1>3. Taken(heard, audioFrames) => (heard' # heard => Before(heard, heard'))
  BY <1>1 DEF Taken, TypeInv, OrderInv
<1>4. CASE MainStep \/ UserStep
  BY <1>2, <1>4, MainTakes
<1>5. CASE QueueStep
  BY <1>5, QueueLeaves DEF queueKeeps, audioVars
<1>6. CASE AudioStep
  BY <1>3, <1>6, AudioTakes
<1>7. CASE UNCHANGED vars
  BY <1>7 DEF vars, audioVars
<1> QED
  BY <1>4, <1>5, <1>6, <1>7 DEF Next

(* Init establishes the order. *)
LEMMA InitOrder == Init => BatchInv /\ OrderInv
<1> SUFFICES ASSUME Init PROVE BatchInv /\ OrderInv
  OBVIOUS
<1>1. /\ batch = <<>> /\ videoFrames = <<>> /\ audioFrames = <<>> /\ qpc = "idle"
      /\ seeks = 0 /\ nread = 0 /\ shown = NoFrame /\ heard = NoFrame
  BY DEF Init
<1>2. BatchInv
  BY <1>1 DEF BatchInv, Sorted, AllSound
<1>3. OrderInv
  BY <1>1 DEF OrderInv, Lane, Sorted, AllAfter, Past, NoFrame
<1> QED BY <1>2, <1>3

(* What the accounting of the sound does not see. *)
Calm ==
  /\ UNCHANGED <<movie, opened, qpc, batch, qload, apc, aload, raced, audioFrames>>
  /\ ~ValidVideo => bufferedDuration' = bufferedDuration
  /\ main # "free_duration" /\ main' # "free_duration"
  /\ opened = "opening" => queue' = queue /\ main' \notin {"tick_some", "tick_none"}

(* play needs an open decoder. *)
LEMMA PlayOpen ==
  ASSUME opened = "opening", play
  PROVE  queue' = queue
BY DEF play, ValidVideo, ValidAudio

(* VC 1139-1197: without pictures presentFrame changes no duration. *)
LEMMA PresentCalm ==
  ASSUME NEW pos, presentFrame(pos)
  PROVE  /\ UNCHANGED <<audioFrames, raced>>
         /\ ~ValidVideo => bufferedDuration' = bufferedDuration
BY DEF presentFrame, frameVars

(* Of the turns of main only three touch the accounting. *)
LEMMA MainCalm ==
  ASSUME IInv, DurationInv, MainStep \/ UserStep
  PROVE  setMovieDecoder \/ freeAudio \/ freeDuration \/ Calm
<1> USE DEF frameVars, queueVars, decVars, audioVars
<1>1. CASE viewDidAppear \/ viewWillDisappear
  BY <1>1 DEF viewDidAppear, viewWillDisappear, Calm, Idle
<1>2. CASE playDidTouch
  <2>1. opened = "opening" => queue' = queue
    BY <1>2, PlayOpen DEF playDidTouch
  <2> QED BY <1>2, <2>1 DEF playDidTouch, Turn, Calm, Idle
<1>3. CASE sessionInterruptionListener \/ (\E pos \in SeekTargets : setMoviePosition(pos))
  BY <1>3 DEF sessionInterruptionListener, setMoviePosition, Turn, Calm, Idle
<1>4. CASE didReceiveMemoryWarning
  BY <1>4 DEF didReceiveMemoryWarning, Turn, freeBufferedFrames, Calm, Idle
<1>5. CASE restorePlay
  <2>1. opened = "opening" => queue' = queue
    BY <1>5, PlayOpen DEF restorePlay
  <2> QED BY <1>5, <2>1 DEF restorePlay, updatePosition, freeBufferedFrames, Calm
<1>6. CASE delayedPosition
  BY <1>6 DEF delayedPosition, updatePosition, freeBufferedFrames, Calm, Idle
<1>7. CASE seekDone
  <2>1. opened = "opening" => queue' = queue
    BY <1>7, PlayOpen DEF seekDone
  <2>2. /\ UNCHANGED <<audioFrames, raced>>
        /\ ~ValidVideo => bufferedDuration' = bufferedDuration
    BY <1>7, PresentCalm DEF seekDone
  <2> QED BY <1>7, <2>1, <2>2 DEF seekDone, Calm, Idle
<1>8. CASE tick
  <2>1. /\ UNCHANGED <<audioFrames, raced>>
        /\ ~ValidVideo => bufferedDuration' = bufferedDuration
    BY <1>8, PresentCalm DEF tick
  <2> QED BY <1>8, <2>1 DEF tick, Calm, Idle
<1>9. CASE tickLeft
  BY <1>9 DEF tickLeft, Calm, IInv, ViewInv
<1>10. CASE tickEnds \/ tickAgain
  BY <1>10 DEF tickEnds, tickAgain, tickKeeps, Calm, DurationInv
<1> QED
  BY <1>1, <1>2, <1>3, <1>4, <1>5, <1>6, <1>7, <1>8, <1>9, <1>10 DEF MainStep, UserStep

(* A step the accounting does not see keeps it. *)
LEMMA CalmDuration == DurationInv /\ Calm => DurationInv'
<1> SUFFICES ASSUME DurationInv, Calm PROVE DurationInv'
  OBVIOUS
<1>1. ~HasVideo \/ opened = "opening" => bufferedDuration' = bufferedDuration
  BY DEF Calm, ValidVideo
<1>2. HasVideo' = HasVideo /\ Locked' = Locked
  BY DEF Calm, HasVideo, Locked
<1>3. DurationExact'
  BY <1>1, <1>2 DEF Calm, DurationInv, DurationExact
<1> QED BY <1>1, <1>2, <1>3 DEF Calm, DurationInv

(* Every turn of main keeps the accounting. *)
LEMMA MainDuration ==
  ASSUME IInv, TypeInv, DurationInv, MainStep \/ UserStep
  PROVE  DurationInv'
<1> USE DEF frameVars, queueVars, decVars, audioVars
<1>1. CASE setMovieDecoder
  <2>1. /\ opened = "opening" /\ opened' # "opening"
        /\ UNCHANGED <<movie, qpc, batch, qload, apc, aload, raced, audioFrames, bufferedDuration>>
    BY <1>1 DEF setMovieDecoder
  <2>2. /\ qpc = "idle" /\ apc = "idle" /\ audioFrames = <<>> /\ bufferedDuration = 0
    BY <2>1 DEF DurationInv
  <2> QED BY <2>1, <2>2 DEF DurationInv, DurationExact, Locked
<1>2. CASE freeAudio
  <2>1. /\ main' = "free_duration" /\ audioFrames' = <<>>
        /\ UNCHANGED <<movie, opened, queue, qpc, batch, qload, apc, aload, raced,
                       bufferedDuration>>
    BY <1>2 DEF freeAudio
  <2> QED BY <2>1 DEF DurationInv, DurationExact, Locked, HasVideo
<1>3. CASE freeDuration
  <2>1. /\ main' = "idle" /\ bufferedDuration' = 0
        /\ raced' = (raced \/ audioFrames # <<>> \/ Locked \/ apc = "store")
        /\ UNCHANGED <<movie, qpc, batch, qload, apc, aload, audioFrames>>
    BY <1>3 DEF freeDuration
  <2>2. opened' = "opening" => opened = "opening" /\ queue' = queue
    <3>1. CASE todo.op = "resume"
      BY <1>3, <3>1, PlayOpen DEF freeDuration
    <3>2. CASE todo.op # "resume"
      BY <1>3, <3>2 DEF freeDuration
    <3> QED BY <3>1, <3>2
  <2>3. DurationExact'
    <3>1. ~raced' => audioFrames' = <<>> /\ ~Locked' /\ apc' # "store"
      BY <2>1 DEF Locked
    <3>2. audioFrames' = <<>> => Len(audioFrames') = 0
      OBVIOUS
    <3> QED BY <2>1, <3>1, <3>2 DEF DurationExact
  <2>4. (~HasVideo /\ ~raced => /\ Locked => qload = bufferedDuration
                                /\ apc = "store" => aload = bufferedDuration)'
    BY <2>1 DEF Locked
  <2> QED BY <2>1, <2>2, <2>3, <2>4 DEF DurationInv, Locked
<1> QED BY <1>1, <1>2, <1>3, MainCalm, CalmDuration

(* Every step of the queue keeps the accounting. *)
LEMMA QueueDuration ==
  ASSUME IInv, TypeInv, BatchInv, DurationInv, QueueStep
  PROVE  DurationInv'
<1> USE DEF frameVars, decVars, audioVars, queueKeeps
<1>1. /\ UNCHANGED <<movie, opened, main, apc, aload>> /\ opened # "opening"
  BY QueueLeaves DEF DurationInv
<1>2. HasVideo' = HasVideo
  BY <1>1 DEF HasVideo
<1>3. CASE decodeStart \/ setPosition \/ decodeMore \/ finishBlock
  <2>1. /\ UNCHANGED <<audioFrames, bufferedDuration, raced>>
        /\ ~Locked /\ ~Locked'
    BY <1>3 DEF decodeStart, setPosition, decodeMore, finishBlock, callDecodeFrames, Locked
  <2> QED BY <1>1, <1>2, <2>1 DEF DurationInv, DurationExact
<1>4. CASE decodeFrames
  <2>1. /\ UNCHANGED <<audioFrames, bufferedDuration, raced>>
        /\ ~Locked /\ ~Locked'
    BY <1>4 DEF decodeFrames, Locked
  <2> QED BY <1>1, <1>2, <2>1 DEF DurationInv, DurationExact
<1>5. CASE addPictures
  <2>1. /\ UNCHANGED <<audioFrames, raced>> /\ ~Locked /\ ~Locked'
        /\ bufferedDuration' = bufferedDuration + (IF ValidVideo THEN Lasting(batch) ELSE 0)
    BY <1>5 DEF addPictures, Locked
  <2>2. ~HasVideo => bufferedDuration' = bufferedDuration
    BY <2>1 DEF ValidVideo, TypeInv
  <2> QED BY <1>1, <1>2, <2>1, <2>2 DEF DurationInv, DurationExact
<1>6. CASE addSound
  <2>1. /\ UNCHANGED <<bufferedDuration, raced, batch>> /\ ~Locked /\ Locked' /\ apc = "idle"
        /\ qload' = bufferedDuration
        /\ audioFrames' = IF ValidAudio THEN audioFrames \o Only("audio", batch) ELSE audioFrames
    BY <1>6 DEF addSound, Locked
  <2>2. Only("audio", batch) \in Seq(Frame)
    BY OnlyFacts DEF TypeInv
  <2>3. ~HasVideo => Len(Only("audio", batch)) = Len(batch)
    BY OnlyFacts DEF TypeInv, BatchInv, AllSound
  <2>4. ~HasVideo /\ opened = "open" => Len(audioFrames') = Len(audioFrames) + Len(batch)
    <3>1. ~HasVideo /\ opened = "open" => ValidAudio
      BY MovieFacts DEF ValidAudio, TypeInv
    <3>2. Len(audioFrames \o Only("audio", batch)) = Len(audioFrames) + Len(Only("audio", batch))
      BY <2>2 DEF TypeInv
    <3> QED BY <2>1, <2>3, <3>1, <3>2
  <2>5. Len(batch) \in Nat /\ Len(audioFrames) \in Nat
    BY DEF TypeInv
  <2>6. DurationExact'
    BY <1>1, <1>2, <2>1, <2>4, <2>5 DEF DurationInv, DurationExact
  <2> QED BY <1>1, <1>2, <2>1, <2>6 DEF DurationInv
<1>7. CASE addDuration
  <2>1. /\ UNCHANGED <<audioFrames, raced>> /\ Locked /\ ~Locked' /\ batch' = <<>>
        /\ bufferedDuration' = IF ValidAudio /\ ~ValidVideo THEN qload + Lasting(batch)
                                                            ELSE bufferedDuration
    BY <1>7 DEF addDuration, Locked
  <2>2. ~HasVideo => Lasting(batch) = Len(batch)
    BY OnlyFacts DEF TypeInv, BatchInv, AllSound, Lasting
  <2>3. ~HasVideo /\ opened = "open" => ValidAudio /\ ~ValidVideo
    BY MovieFacts DEF ValidAudio, ValidVideo, TypeInv
  <2>4. apc # "store" /\ Len(batch) \in Nat /\ Len(audioFrames) \in Nat
    BY <2>1 DEF DurationInv, TypeInv
  <2>5. DurationExact'
    <3> SUFFICES ASSUME ~HasVideo, ~raced, main # "free_duration", opened = "open"
                 PROVE  bufferedDuration' = Len(audioFrames)
      BY <1>1, <1>2, <2>1, <2>4 DEF DurationExact
    <3>1. bufferedDuration = Len(audioFrames) - Len(batch) + 0 /\ qload = bufferedDuration
      BY <2>1, <2>4 DEF DurationInv, DurationExact
    <3>2. bufferedDuration' = qload + Len(batch)
      BY <2>1, <2>2, <2>3
    <3> QED BY <2>4, <3>1, <3>2
  <2> QED BY <1>1, <1>2, <2>1, <2>4, <2>5 DEF DurationInv
<1> QED
  BY <1>3, <1>4, <1>5, <1>6, <1>7 DEF QueueStep

(* Every step of the audio thread keeps the accounting. *)
LEMMA AudioDuration ==
  ASSUME IInv, TypeInv, DurationInv, AudioStep
  PROVE  DurationInv'
<1> USE DEF audioKeeps, queueVars, decVars
<1>1. /\ UNCHANGED <<movie, opened, main, queue, qpc, batch, qload, raced>>
  BY AudioLeaves
<1>2. HasVideo' = HasVideo /\ Locked' = Locked
  BY <1>1 DEF HasVideo, Locked
<1>3. opened # "opening"
  BY DEF AudioStep, fillBesideVideo, fillAlone, fillDuration, DurationInv
<1>4. CASE fillBesideVideo
  <2>1. HasVideo /\ UNCHANGED apc
    BY <1>4 DEF fillBesideVideo, ValidVideo
  <2> QED BY <1>1, <1>2, <1>3, <2>1 DEF DurationInv, DurationExact
<1>5. CASE fillAlone
  <2>1. /\ audioFrames # <<>> /\ ~Locked /\ audioFrames' = Tail(audioFrames)
        /\ apc = "idle" /\ apc' = "store" /\ aload' = bufferedDuration /\ UNCHANGED bufferedDuration
    BY <1>5 DEF fillAlone, CallbackRuns
  <2>2. Len(audioFrames) \in Nat /\ Len(audioFrames') = Len(audioFrames) - 1
    BY <2>1, HeadTail DEF TypeInv
  <2>3. DurationExact'
    BY <1>1, <1>2, <2>1, <2>2 DEF DurationInv, DurationExact
  <2> QED BY <1>1, <1>2, <1>3, <2>1, <2>3 DEF DurationInv
<1>6. CASE fillDuration
  <2>1. /\ apc = "store" /\ apc' = "idle" /\ bufferedDuration' = aload - 1 /\ UNCHANGED audioFrames
    BY <1>6 DEF fillDuration
  <2>2. ~Locked /\ Len(audioFrames) \in Nat
    BY <2>1 DEF DurationInv, TypeInv
  <2>3. DurationExact'
    BY <1>1, <1>2, <2>1, <2>2 DEF DurationInv, DurationExact, TypeInv
  <2> QED BY <1>1, <1>2, <1>3, <2>1, <2>2, <2>3 DEF DurationInv
<1> QED
  BY <1>4, <1>5, <1>6 DEF AudioStep

(* Every step keeps the accounting. *)
LEMMA StepDuration ==
  IInv /\ TypeInv /\ BatchInv /\ DurationInv /\ [Next]_vars => DurationInv'
<1>1. ASSUME DurationInv, UNCHANGED vars PROVE DurationInv'
  <2>1. UNCHANGED <<movie, opened, main, queue, qpc, batch, qload, apc, aload, raced,
                    audioFrames, bufferedDuration>>
    BY <1>1 DEF vars, frameVars, queueVars, decVars, audioVars
  <2> QED BY <1>1, <2>1 DEF DurationInv, DurationExact, Locked, HasVideo
<1> QED
  BY <1>1, MainDuration, QueueDuration, AudioDuration DEF Next

(* Init establishes the accounting. *)
LEMMA InitDuration == Init => DurationInv
BY DEF Init, DurationInv, DurationExact, Locked

(* A block joins the queue behind the one that runs. *)
LEMMA AppendQueue ==
  ASSUME TypeInv, QueueInv, NEW block \in Block, queue' = Append(queue, block), qpc' = qpc
  PROVE  /\ qpc # "idle" => queue' # <<>> /\ Head(queue') = Head(queue)
         /\ block.op # "seek" /\ SeekWaits' => SeekWaits
<1>1. /\ Len(queue) \in Nat /\ Len(queue') = Len(queue) + 1
      /\ \A i \in 1 .. Len(queue) : queue'[i] = queue[i]
      /\ queue'[Len(queue) + 1] = block
  BY DEF TypeInv
<1>2. queue' # <<>> /\ (queue # <<>> => Head(queue') = Head(queue))
  BY DEF TypeInv
<1>3. block.op # "seek" /\ SeekWaits' => SeekWaits
  BY <1>1 DEF SeekWaits
<1> QED BY <1>2, <1>3 DEF QueueInv

(* The block at the front leaves. *)
LEMMA TailQueue ==
  ASSUME TypeInv, queue # <<>>, queue' = Tail(queue), SeekWaits'
  PROVE  SeekWaits
<1>1. /\ Len(queue') = Len(queue) - 1 /\ Len(queue) \in Nat \ {0}
      /\ \A i \in 1 .. Len(queue') : queue'[i] = queue[i + 1]
  BY HeadTail DEF TypeInv
<1>2. PICK i \in 1 .. Len(queue') : queue'[i].op = "seek"
  BY DEF SeekWaits
<1>3. i + 1 \in 1 .. Len(queue) /\ i + 1 > 1 /\ queue[i + 1].op = "seek"
  BY <1>1, <1>2
<1> QED BY <1>3 DEF SeekWaits

(* VC 515-551, 1006-1017: who starts to play while a seek is under way is  *)
(* impatient; only decode blocks are added.                                *)
LEMMA PlayWaits ==
  ASSUME IInv, TypeInv, qpc' = qpc, play \/ UNCHANGED <<queue, playing, impatient>>
  PROVE  /\ qpc # "idle" => queue' # <<>> /\ Head(queue') = Head(queue)
         /\ SeekWaits' => SeekWaits
         /\ impatient => impatient'
         /\ playing' => playing \/ impatient' \/ ~SeekWaits
<1>0. QueueInv /\ (qpc # "idle" => queue # <<>>)
  BY DEF IInv, QueueInv
<1>1. CASE queue' = queue /\ playing' = playing /\ impatient' = impatient
  BY <1>0, <1>1 DEF SeekWaits
<1>2. CASE asyncDecodeFrames /\ impatient' = (impatient \/ SeekUnderWay)
  <2>1. SeekWaits => SeekUnderWay
    BY DEF SeekWaits, SeekUnderWay
  <2>2. queue' = queue \/ queue' = Append(queue, DecodeBlock)
    BY <1>2 DEF asyncDecodeFrames
  <2>3. DecodeBlock \in Block /\ DecodeBlock.op # "seek"
    BY DEF DecodeBlock, Block
  <2>4. /\ qpc # "idle" => queue' # <<>> /\ Head(queue') = Head(queue)
        /\ SeekWaits' => SeekWaits
    <3>1. CASE queue' = queue
      BY <1>0, <3>1 DEF SeekWaits
    <3>2. CASE queue' = Append(queue, DecodeBlock)
      BY <1>0, <2>3, <3>2, AppendQueue
    <3> QED BY <2>2, <3>1, <3>2
  <2> QED BY <1>2, <2>1, <2>4
<1> QED BY <1>1, <1>2, PlayStarts

(* What main does to the queue and to the playing. *)
LEMMA MainWaits ==
  ASSUME IInv, TypeInv, MainStep \/ UserStep
  PROVE  /\ qpc # "idle" => queue' # <<>> /\ Head(queue') = Head(queue)
         /\ SeekWaits' => SeekPending
         /\ impatient => impatient'
         /\ playing' => playing \/ impatient' \/ ~SeekWaits
<1> USE DEF ctlVars, queueVars, SeekPending
<1>0. qpc' = qpc
  BY MainTakes
<1>1. CASE setMovieDecoder \/ viewDidAppear
  BY <1>0, <1>1, PlayWaits DEF setMovieDecoder, viewDidAppear
<1>2. CASE UNCHANGED <<queue, impatient>> /\ (playing' => playing)
  <2>1. qpc # "idle" => queue # <<>>
    BY DEF IInv, QueueInv
  <2> QED BY <1>0, <1>2, <2>1 DEF SeekWaits
<1>3. CASE viewWillDisappear \/ (\E pos \in SeekTargets : setMoviePosition(pos))
           \/ didReceiveMemoryWarning \/ sessionInterruptionListener
  BY <1>2, <1>3 DEF viewWillDisappear, setMoviePosition, didReceiveMemoryWarning,
     sessionInterruptionListener, pause
<1>4. CASE delayedPosition \/ freeAudio \/ tick \/ tickLeft \/ tickEnds
  BY <1>2, <1>4 DEF delayedPosition, freeAudio, tick, tickLeft, tickEnds, tickKeeps, pause
<1>5. CASE playDidTouch
  <2>1. CASE playing
    BY <1>2, <1>5, <2>1 DEF playDidTouch, pause
  <2>2. CASE ~playing
    BY <1>0, <1>5, <2>2, PlayWaits DEF playDidTouch
  <2> QED BY <2>1, <2>2
<1>6. CASE restorePlay
  BY <1>0, <1>6, PlayWaits DEF restorePlay
<1>7. CASE seekDone
  BY <1>0, <1>7, PlayWaits DEF seekDone
<1>8. CASE freeDuration
  <2>1. CASE todo.op = "seek"
    <3>1. main = "free_duration" /\ UNCHANGED <<playing, impatient>>
      BY <1>8, <2>1 DEF freeDuration
    <3>2. queue' = queue \/ queue' = Append(queue, todo)
      BY <1>8, <2>1 DEF freeDuration
    <3>3. todo \in Block
      BY <2>1 DEF TypeInv, Todo, Block
    <3>4. QueueInv /\ (qpc # "idle" => queue # <<>>)
      BY DEF IInv, QueueInv
    <3>5. qpc # "idle" => queue' # <<>> /\ Head(queue') = Head(queue)
      <4>1. CASE queue' = queue
        BY <3>4, <4>1
      <4>2. CASE queue' = Append(queue, todo)
        BY <1>0, <3>3, <3>4, <4>2, AppendQueue
      <4> QED BY <3>2, <4>1, <4>2
    <3> QED BY <2>1, <3>1, <3>5
  <2>2. CASE todo.op # "seek"
    BY <1>0, <1>8, <2>2, PlayWaits DEF freeDuration
  <2> QED BY <2>1, <2>2
<1>9. CASE tickAgain
  <2>1. (asyncDecodeFrames \/ queue' = queue) /\ UNCHANGED <<playing, impatient>>
    BY <1>9 DEF tickAgain, tickKeeps
  <2>2. queue' = queue \/ queue' = Append(queue, DecodeBlock)
    BY <2>1 DEF asyncDecodeFrames
  <2>3. DecodeBlock \in Block /\ DecodeBlock.op # "seek"
    BY DEF DecodeBlock, Block
  <2>4. CASE queue' = queue
    BY <1>2, <2>1, <2>4
  <2>5. CASE queue' = Append(queue, DecodeBlock)
    <3>1. QueueInv
      BY DEF IInv
    <3> QED BY <1>0, <2>1, <2>3, <2>5, <3>1, AppendQueue
  <2> QED BY <2>2, <2>4, <2>5
<1> QED
  BY <1>1, <1>3, <1>4, <1>5, <1>6, <1>7, <1>8, <1>9 DEF MainStep, UserStep

(* A step that only takes sound away keeps LeftInv, unless a seek comes up *)
(* in a movie that plays.                                                  *)
LEMMA QuietLeft ==
  ASSUME TypeInv, BatchInv, LeftInv, UNCHANGED <<movie, seeks, batch, qpc>>,
         \/ audioFrames' = audioFrames \/ audioFrames' = <<>>
         \/ audioFrames # <<>> /\ audioFrames' = Tail(audioFrames),
         qpc # "idle" => queue' # <<>> /\ Head(queue') = Head(queue),
         qpc # "idle" => queue # <<>>,
         impatient => impatient',
         ~HasVideo /\ ~impatient' /\ SeekPending' =>
           ~playing' /\ (SeekPending \/ audioFrames' = <<>>)
  PROVE  LeftInv'
<1> DEFINE a == audioFrames
           b == audioFrames'
<1>0. CHUNK \in Nat
  BY KxAssumption
<1>1. HasVideo' = HasVideo /\ Decoding' = Decoding /\ (Decoding => qpc # "idle")
  BY DEF HasVideo, Decoding
<1>2. PICK d \in {0, 1} : \/ b = <<>> /\ Len(b) = 0
                          \/ /\ Len(b) = Len(a) - d /\ Len(a) \in Nat
                             /\ \A i \in 1 .. Len(b) : b[i] = a[i + d]
  <2>1. CASE b = <<>>
    BY <2>1
  <2>2. CASE b = a
    <3>1. /\ Len(b) = Len(a) - 0 /\ Len(a) \in Nat
          /\ \A i \in 1 .. Len(b) : b[i] = a[i + 0]
      BY <2>2 DEF TypeInv
    <3> QED BY <3>1
  <2>3. CASE a # <<>> /\ b = Tail(a)
    <3>1. /\ Len(b) = Len(a) - 1 /\ Len(a) \in Nat
          /\ \A i \in 1 .. Len(b) : b[i] = a[i + 1]
      BY <2>3, HeadTail DEF TypeInv
    <3> QED BY <3>1
  <2> QED BY <2>1, <2>2, <2>3
<1>3. Len(b) \in Nat
  <2>1. a \in Seq(Frame)
    BY DEF TypeInv
  <2>2. <<>> \in Seq(Frame) /\ (a # <<>> => Tail(a) \in Seq(Frame))
    BY <2>1, HeadTail
  <2>3. b \in Seq(Frame)
    BY <2>1, <2>2
  <2> QED BY <2>3
<1>4. a = <<>> => b = <<>>
  OBVIOUS
<1> HIDE DEF a, b
<1>5. (~HasVideo =>
         Len(batch) <= (IF queue # <<>> /\ Head(queue).op = "seek" THEN 1 ELSE CHUNK + 1))'
  <2>1. CASE batch = <<>>
    <3>1. Len(batch) = 0
      BY <2>1
    <3> QED BY <1>0, <3>1
  <2>2. CASE batch # <<>>
    <3>1. qpc # "idle"
      BY <2>2 DEF BatchInv
    <3> QED BY <1>1, <3>1 DEF LeftInv
  <2> QED BY <2>1, <2>2
<1>6. (Decoding /\ Head(queue).op = "seek" =>
         \A i \in 1 .. Len(audioFrames) : audioFrames[i].seek < seeks)'
  <2> SUFFICES ASSUME Decoding, Head(queue).op = "seek", NEW i \in 1 .. Len(b)
               PROVE  b[i].seek < seeks
    BY <1>1 DEF b
  <2>1. \A j \in 1 .. Len(a) : a[j].seek < seeks
    BY DEF LeftInv, a
  <2>2. i + d \in 1 .. Len(a) /\ b[i] = a[i + d]
    BY <1>2, <1>3
  <2> QED BY <2>1, <2>2
<1>7. ASSUME NEW i \in CHUNK + 1 .. Len(b) - 1
      PROVE  /\ i + d \in CHUNK + 1 .. Len(a) - 1
             /\ b[i] = a[i + d] /\ b[i + 1] = a[(i + d) + 1]
  <2>1. i \in 1 .. Len(b) /\ i + 1 \in 1 .. Len(b) /\ Len(b) # 0
    BY <1>0, <1>3
  <2>2. /\ Len(b) = Len(a) - d /\ Len(a) \in Nat
        /\ b[i] = a[i + d] /\ b[i + 1] = a[(i + 1) + d]
    BY <1>2, <2>1
  <2>3. (i + 1) + d = (i + d) + 1 /\ i + d \in CHUNK + 1 .. Len(a) - 1
    BY <1>0, <2>1, <2>2
  <2> QED BY <2>2, <2>3
<1>8. LeftoverBound'
  <2> SUFFICES ASSUME ~HasVideo, ~impatient, NEW i \in CHUNK + 1 .. Len(b) - 1,
                      b[i + 1].seek < seeks
               PROVE  b[i].seek < b[i + 1].seek
    BY <1>1 DEF LeftoverBound, b
  <2>1. \A j \in CHUNK + 1 .. Len(a) - 1 : a[j + 1].seek < seeks => a[j].seek < a[j + 1].seek
    BY DEF LeftInv, LeftoverBound, a
  <2> QED BY <1>7, <2>1
<1>9. Chain => Chain'
  BY <1>7 DEF Chain, a, b
<1>10. b = <<>> => Chain'
  <2>1. b = <<>> => Len(b) = 0
    OBVIOUS
  <2> QED BY <1>0, <2>1 DEF Chain, b
<1>11. (~HasVideo /\ ~impatient /\ SeekPending =>
          /\ ~playing
          /\ Chain
          /\ Decoding /\ Head(queue).op = "decode" => audioFrames = <<>>)'
  <2> SUFFICES ASSUME ~HasVideo, ~impatient', SeekPending'
               PROVE  /\ ~playing' /\ Chain'
                      /\ Decoding' /\ Head(queue').op = "decode" => b = <<>>
    BY <1>1 DEF b
  <2>1. ~playing' /\ (SeekPending \/ b = <<>>)
    BY DEF b
  <2>2. SeekPending => Chain /\ (Decoding /\ Head(queue).op = "decode" => a = <<>>)
    BY DEF LeftInv, a
  <2> QED BY <1>1, <1>4, <1>9, <1>10, <2>1, <2>2
<1> QED BY <1>5, <1>6, <1>8, <1>11 DEF LeftInv

(* Every turn of main keeps LeftInv. *)
LEMMA MainLeft ==
  ASSUME IInv, TypeInv, BatchInv, DurationInv, LeftInv, MainStep \/ UserStep
  PROVE  LeftInv'
<1>1. /\ UNCHANGED <<movie, seeks, batch, qpc>>
      /\ audioFrames' = audioFrames \/ audioFrames' = <<>>
  BY MainTakes
<1>2. /\ qpc # "idle" => queue' # <<>> /\ Head(queue') = Head(queue)
      /\ SeekWaits' => SeekPending
      /\ impatient => impatient'
      /\ playing' => playing \/ impatient' \/ ~SeekWaits
  BY MainWaits
<1>3. qpc # "idle" => queue # <<>>
  BY DEF IInv, QueueInv
<1>4. ~HasVideo /\ ~impatient /\ SeekPending => ~playing
  BY DEF LeftInv
<1>5. ASSUME ~HasVideo, ~impatient', SeekPending'
      PROVE  ~playing' /\ (SeekPending \/ audioFrames' = <<>>)
  <2>1. CASE freeAudio
    <3>1. main = "free_audio" /\ audioFrames' = <<>> /\ playing' = playing
      BY <2>1 DEF freeAudio, ctlVars
    <3> QED BY <1>2, <1>5, <3>1 DEF IInv, SeekInv, Freeing
  <2>2. CASE main' # "free_duration"
    <3>1. SeekWaits' /\ SeekPending /\ ~impatient
      BY <1>2, <1>5, <2>2 DEF SeekPending
    <3>2. ~playing
      BY <1>4, <1>5, <3>1
    <3>3. CASE SeekWaits
      BY <1>2, <1>5, <3>1, <3>2, <3>3
    <3>4. CASE ~SeekWaits
      <4>1. main = "free_duration" /\ todo.op = "seek"
        BY <3>1, <3>4 DEF SeekPending
      <4>2. freeDuration
        BY <4>1 DEF MainStep, UserStep, setMovieDecoder, restorePlay, delayedPosition, freeAudio,
           seekDone, tick, tickLeft, tickEnds, tickAgain, viewDidAppear, viewWillDisappear,
           playDidTouch, setMoviePosition, didReceiveMemoryWarning,
           sessionInterruptionListener, Turn, Idle
      <4>3. playing' = playing
        BY <4>1, <4>2 DEF freeDuration, ctlVars
      <4> QED BY <3>1, <3>2, <4>3
    <3> QED BY <3>3, <3>4
  <2>3. CASE setMovieDecoder \/ freeDuration \/ Calm
    <3>1. main' # "free_duration"
      BY <2>3 DEF setMovieDecoder, freeDuration, Calm, Idle
    <3> QED BY <2>2, <3>1
  <2> QED BY <2>1, <2>3, MainCalm
<1> QED BY <1>1, <1>2, <1>3, <1>5, QuietLeft

(* Every step of the audio thread keeps LeftInv. *)
LEMMA AudioLeft ==
  ASSUME IInv, TypeInv, BatchInv, LeftInv, AudioStep
  PROVE  LeftInv'
<1>1. /\ UNCHANGED <<movie, seeks, batch, qpc>> /\ Taken(heard, audioFrames)
  BY AudioTakes
<1>2. UNCHANGED <<queue, main, todo, playing, impatient>>
  BY AudioLeaves DEF audioKeeps, ctlVars, queueVars
<1>3. qpc # "idle" => queue # <<>>
  BY DEF IInv, QueueInv
<1>4. SeekPending' = SeekPending
  BY <1>1, <1>2 DEF SeekPending, SeekWaits
<1>5. ~HasVideo /\ ~impatient /\ SeekPending => ~playing
  BY DEF LeftInv
<1>6. \/ audioFrames' = audioFrames \/ audioFrames' = <<>>
      \/ audioFrames # <<>> /\ audioFrames' = Tail(audioFrames)
  BY <1>1 DEF Taken
<1> QED BY <1>1, <1>2, <1>3, <1>4, <1>5, <1>6, QuietLeft

(* VC 994, 1036: one call of decodeFrames adds at most CHUNK + 1 frames    *)
(* behind what there is, after a seek at most one, all with the number of  *)
(* the last seek.                                                          *)
LEMMA GrowLeft ==
  ASSUME IInv, TypeInv, BatchInv, LeftInv, addSound
  PROVE  LeftInv'
<1> DEFINE a == audioFrames
           b == audioFrames'
           x == Only("audio", batch)
<1>0. CHUNK \in Nat
  BY KxAssumption
<1>1. /\ UNCHANGED <<movie, seeks, batch, queue, main, todo, playing, impatient>>
      /\ qpc = "add_audio" /\ qpc' = "store"
      /\ b = a \o x \/ b = a
  BY DEF addSound, queueKeeps, decVars
<1>2. HasVideo' = HasVideo /\ SeekPending' = SeekPending /\ Decoding /\ ~Decoding'
  BY <1>1 DEF HasVideo, SeekPending, SeekWaits, Decoding
<1>3. /\ a \in Seq(Frame) /\ Len(a) \in Nat /\ x \in Seq(Frame) /\ Len(x) \in Nat
      /\ Len(batch) \in Nat /\ Len(x) <= Len(batch) /\ seeks \in Nat
      /\ \A i \in 1 .. Len(x) : x[i].seek = seeks
  <2>1. batch \in Seq(Frame) /\ a \in Seq(Frame) /\ seeks \in Nat
    BY DEF TypeInv
  <2>2. /\ x \in Seq(Frame) /\ Len(x) <= Len(batch)
        /\ \A j \in 1 .. Len(x) : \E i \in 1 .. Len(batch) : x[j] = batch[i]
    BY <2>1, OnlyFacts
  <2>3. \A i \in 1 .. Len(batch) : batch[i].seek = seeks
    BY DEF BatchInv
  <2> HIDE DEF a, x
  <2>4. \A i \in 1 .. Len(x) : x[i].seek = seeks
    BY <2>2, <2>3
  <2>5. Len(a) \in Nat /\ Len(x) \in Nat /\ Len(batch) \in Nat
    BY <2>1, <2>2
  <2> QED BY <2>1, <2>2, <2>4, <2>5
<1> HIDE DEF x
<1>4. PICK k \in Nat :
        /\ k <= Len(batch) /\ Len(b) = Len(a) + k
        /\ \A i \in 1 .. Len(a) : b[i] = a[i]
        /\ \A i \in Len(a) + 1 .. Len(b) : b[i].seek = seeks
  <2>1. CASE b = a
    <3>1. 0 <= Len(batch) /\ Len(b) = Len(a) + 0
      BY <1>3, <2>1
    <3>2. \A i \in Len(a) + 1 .. Len(b) : FALSE
      BY <1>3, <3>1
    <3>3. \A i \in 1 .. Len(a) : b[i] = a[i]
      BY <2>1
    <3> HIDE DEF a, b
    <3> QED BY <3>1, <3>2, <3>3
  <2>2. CASE b = a \o x
    <3>1. /\ Len(b) = Len(a) + Len(x)
          /\ \A i \in 1 .. Len(a) : b[i] = a[i]
          /\ \A i \in Len(a) + 1 .. Len(b) : b[i] = x[i - Len(a)] /\ i - Len(a) \in 1 .. Len(x)
      BY <1>3, <2>2
    <3> QED BY <1>3, <3>1
  <2> QED BY <1>1, <2>1, <2>2
<1>5. queue # <<>>
  BY <1>1 DEF IInv, QueueInv
<1> HIDE DEF a, b
<1>6. LeftoverBound'
  <2> SUFFICES ASSUME ~HasVideo, ~impatient, NEW i \in CHUNK + 1 .. Len(b) - 1,
                      b[i + 1].seek < seeks
               PROVE  b[i].seek < b[i + 1].seek
    BY <1>1, <1>2 DEF LeftoverBound, b
  <2>1. i + 1 \in 1 .. Len(b) /\ i \in 1 .. Len(b)
    BY <1>0, <1>3, <1>4
  <2>2. i + 1 \notin Len(a) + 1 .. Len(b)
    <3>1. i + 1 \in Len(a) + 1 .. Len(b) => b[i + 1].seek = seeks
      BY <1>4
    <3> QED BY <1>3, <3>1
  <2>3. i \in CHUNK + 1 .. Len(a) - 1 /\ i \in 1 .. Len(a) /\ i + 1 \in 1 .. Len(a)
    BY <1>0, <1>3, <1>4, <2>1, <2>2
  <2>4. \A j \in CHUNK + 1 .. Len(a) - 1 : a[j + 1].seek < seeks => a[j].seek < a[j + 1].seek
    BY DEF LeftInv, LeftoverBound, a
  <2>5. b[i] = a[i] /\ b[i + 1] = a[i + 1]
    BY <1>4, <2>3
  <2> QED BY <2>3, <2>4, <2>5
<1>7. ASSUME ~HasVideo, ~impatient, SeekPending PROVE Chain'
  <2> SUFFICES ASSUME NEW i \in CHUNK + 1 .. Len(b) - 1 PROVE b[i].seek < b[i + 1].seek
    BY DEF Chain, b
  <2>1. /\ Chain /\ (Head(queue).op = "decode" => a = <<>>)
        /\ Len(batch) <= (IF Head(queue).op = "seek" THEN 1 ELSE CHUNK + 1)
        /\ Head(queue).op = "seek" => \A j \in 1 .. Len(a) : a[j].seek < seeks
    BY <1>2, <1>5, <1>7 DEF LeftInv, a
  <2>2. Head(queue).op \in {"decode", "seek"}
    <3>1. Head(queue) \in Block
      BY <1>5, HeadTail DEF TypeInv
    <3> QED BY <3>1 DEF Block
  <2>3. CASE Head(queue).op = "decode"
    <3>1. Len(a) = 0 /\ Len(batch) <= CHUNK + 1
      BY <2>1, <2>3
    <3> QED BY <1>0, <1>3, <1>4, <3>1
  <2>4. CASE Head(queue).op = "seek"
    <3>1. k = 0 \/ k = 1
      BY <1>3, <1>4, <2>1, <2>4
    <3>2. i \in 1 .. Len(a) /\ b[i] = a[i]
      <4>1. i \in 1 .. Len(a)
        BY <1>0, <1>3, <1>4, <3>1
      <4> QED BY <1>4, <4>1
    <3>3. CASE i + 1 <= Len(a)
      <4>1. i \in CHUNK + 1 .. Len(a) - 1 /\ i + 1 \in 1 .. Len(a)
        BY <1>0, <1>3, <3>2, <3>3
      <4>2. b[i + 1] = a[i + 1] /\ a[i].seek < a[i + 1].seek
        BY <1>4, <2>1, <4>1 DEF Chain, a
      <4> QED BY <3>2, <4>2
    <3>4. CASE i + 1 > Len(a)
      <4>1. i + 1 \in Len(a) + 1 .. Len(b)
        BY <1>0, <1>3, <1>4, <3>4
      <4>2. b[i + 1].seek = seeks
        BY <1>4, <4>1
      <4> QED BY <2>1, <2>4, <3>2, <4>2
    <3> QED BY <1>0, <1>3, <3>3, <3>4
  <2> QED BY <2>2, <2>3, <2>4
<1>8. (~HasVideo =>
         Len(batch) <= (IF queue # <<>> /\ Head(queue).op = "seek" THEN 1 ELSE CHUNK + 1))'
  BY <1>1, <1>2 DEF LeftInv
<1>9. ~HasVideo /\ ~impatient /\ SeekPending => ~playing
  BY DEF LeftInv
<1> QED BY <1>1, <1>2, <1>6, <1>7, <1>8, <1>9 DEF LeftInv

(* Every step of the queue keeps LeftInv. *)
LEMMA QueueLeft ==
  ASSUME IInv, TypeInv, BatchInv, OrderInv, LeftInv, QueueStep
  PROVE  LeftInv'
<1> USE DEF frameVars, decVars, queueKeeps
<1>0. CHUNK \in Nat
  BY KxAssumption
<1>1. UNCHANGED <<movie, main, todo, playing, impatient>> /\ HasVideo' = HasVideo
  BY QueueLeaves DEF HasVideo
<1>2. ~HasVideo /\ ~impatient /\ SeekPending =>
        /\ ~playing /\ Chain
        /\ Decoding /\ Head(queue).op = "decode" => audioFrames = <<>>
  BY DEF LeftInv
<1>3. UNCHANGED <<seeks, audioFrames>> => LeftoverBound' /\ (Chain => Chain')
  BY <1>1 DEF LeftInv, LeftoverBound, Chain
<1>4. batch' = <<>> => (~HasVideo =>
         Len(batch) <= (IF queue # <<>> /\ Head(queue).op = "seek" THEN 1 ELSE CHUNK + 1))'
  <2>1. batch' = <<>> => Len(batch') = 0
    OBVIOUS
  <2> QED BY <1>0, <2>1
<1>5. CASE decodeStart \/ decodeMore \/ finishBlock
  <2>1. /\ UNCHANGED <<seeks, audioFrames, batch>>
        /\ qpc \in {"idle", "more", "finish"}
    BY <1>5 DEF decodeStart, decodeMore, finishBlock
  <2>2. batch = <<>> /\ batch' = <<>>
    BY <2>1 DEF BatchInv
  <2>3. SeekPending' => SeekPending
    <3>1. CASE UNCHANGED queue /\ (qpc = "idle" \/ qpc' # "idle")
      BY <1>1, <3>1 DEF SeekPending, SeekWaits
    <3>2. CASE queue # <<>> /\ queue' = Tail(queue)
      BY <1>1, <3>2, TailQueue DEF SeekPending
    <3>3. qpc # "idle" => queue # <<>>
      BY DEF IInv, QueueInv
    <3> QED BY <1>5, <3>1, <3>2, <3>3 DEF decodeStart, decodeMore, finishBlock, callDecodeFrames
  <2>4. Decoding' => playing /\ queue' = queue /\ Head(queue).op = "decode"
    BY <1>5 DEF decodeStart, decodeMore, finishBlock, callDecodeFrames, Decoding
  <2> QED BY <1>1, <1>2, <1>3, <1>4, <2>1, <2>2, <2>3, <2>4 DEF LeftInv
<1>6. CASE setPosition
  <2>1. /\ UNCHANGED <<audioFrames, batch, queue>>
        /\ qpc = "idle" /\ queue # <<>> /\ Head(queue).op = "seek" /\ seeks' = seeks + 1
    BY <1>6 DEF setPosition
  <2>2. batch' = <<>>
    BY <2>1 DEF BatchInv
  <2>3. SeekPending
    <3>1. 1 \in 1 .. Len(queue) /\ queue[1] = Head(queue)
      BY <2>1, HeadTail DEF TypeInv
    <3> QED BY <2>1, <3>1 DEF SeekPending, SeekWaits
  <2>4. \A i \in 1 .. Len(audioFrames) : audioFrames[i].seek < seeks'
    BY <2>1, SeekKeepsLane DEF TypeInv, OrderInv
  <2>5. Chain => Chain' /\ LeftoverBound'
    BY <2>1 DEF Chain, LeftoverBound
  <2>6. ~HasVideo /\ ~impatient => LeftoverBound' /\ Chain' /\ ~playing
    BY <1>2, <2>3, <2>5
  <2>7. LeftoverBound'
    BY <1>1, <2>6 DEF LeftoverBound
  <2> QED BY <1>1, <1>4, <2>1, <2>2, <2>4, <2>6, <2>7 DEF LeftInv
<1>7. CASE decodeFrames
  <2>1. /\ UNCHANGED <<seeks, audioFrames, queue>> /\ qpc = "read" /\ qpc' # "idle"
    BY <1>7 DEF decodeFrames
  <2>2. Decoding /\ SeekPending' = SeekPending
    BY <1>1, <2>1 DEF Decoding, SeekPending, SeekWaits
  <2>3. (~HasVideo =>
           Len(batch) <= (IF queue # <<>> /\ Head(queue).op = "seek" THEN 1 ELSE CHUNK + 1))'
    <3>1. CASE opened = "open"
      <4>1. PICK n : BatchIs(n)
        BY <1>7, <3>1, ReadsBatch DEF TypeInv, BatchIs
      <4>2. queue # <<>>
        BY <2>1 DEF IInv, QueueInv
      <4>3. ~HasVideo => Len(batch') <= minDuration + 1
        BY <4>1 DEF BatchIs
      <4> QED BY <1>0, <1>1, <2>1, <4>2, <4>3 DEF minDuration
    <3>2. CASE opened # "open"
      BY <1>1, <1>7, <2>1, <3>2 DEF decodeFrames, LeftInv
    <3> QED BY <3>1, <3>2
  <2> QED BY <1>1, <1>2, <1>3, <2>1, <2>2, <2>3 DEF LeftInv
<1>8. CASE addPictures
  <2>1. /\ UNCHANGED <<seeks, audioFrames, queue, batch>>
        /\ qpc = "add_video" /\ qpc' = "add_audio"
    BY <1>8 DEF addPictures
  <2>2. Decoding /\ Decoding' /\ SeekPending' = SeekPending
    BY <1>1, <2>1 DEF Decoding, SeekPending, SeekWaits
  <2> QED BY <1>1, <1>2, <1>3, <2>1, <2>2 DEF LeftInv
<1>9. CASE addSound
  BY <1>9, GrowLeft
<1>10. CASE addDuration
  <2>1. /\ UNCHANGED <<seeks, audioFrames, queue>> /\ batch' = <<>>
        /\ qpc = "store" /\ qpc' = "more"
    BY <1>10 DEF addDuration
  <2>2. ~Decoding' /\ SeekPending' = SeekPending
    BY <1>1, <2>1 DEF Decoding, SeekPending, SeekWaits
  <2> QED BY <1>1, <1>2, <1>3, <1>4, <2>1, <2>2 DEF LeftInv
<1> QED
  BY <1>5, <1>6, <1>7, <1>8, <1>9, <1>10 DEF QueueStep

(* Every step keeps LeftInv. *)
LEMMA StepLeft ==
  IInv /\ TypeInv /\ BatchInv /\ OrderInv /\ DurationInv /\ LeftInv /\ [Next]_vars => LeftInv'
<1>1. ASSUME LeftInv, UNCHANGED vars PROVE LeftInv'
  <2>1. UNCHANGED <<movie, seeks, batch, qpc, queue, main, todo, playing, impatient, audioFrames>>
    BY <1>1 DEF vars, ctlVars, frameVars, queueVars, decVars
  <2>2. /\ HasVideo' = HasVideo /\ Decoding' = Decoding /\ SeekPending' = SeekPending
        /\ Chain' = Chain /\ LeftoverBound' = LeftoverBound
    BY <2>1 DEF HasVideo, Decoding, SeekPending, SeekWaits, Chain, LeftoverBound
  <2> QED BY <1>1, <2>1, <2>2 DEF LeftInv
<1> QED
  BY <1>1, MainLeft, QueueLeft, AudioLeft DEF Next

(* Init establishes LeftInv. *)
LEMMA InitLeft == Init => LeftInv
<1> SUFFICES ASSUME Init PROVE LeftInv
  OBVIOUS
<1>1. /\ batch = <<>> /\ queue = <<>> /\ audioFrames = <<>> /\ qpc = "idle" /\ main = "idle"
      /\ Len(batch) = 0 /\ Len(audioFrames) = 0 /\ Len(queue) = 0
  BY DEF Init
<1>2. CHUNK \in Nat
  BY KxAssumption
<1>3. ~SeekPending /\ ~Decoding /\ LeftoverBound
  BY <1>1, <1>2 DEF SeekPending, SeekWaits, Decoding, LeftoverBound
<1> QED BY <1>1, <1>2, <1>3 DEF LeftInv

-----------------------------------------------------------------------------

FrameInv == TypeInv /\ BatchInv /\ OrderInv /\ DurationInv /\ LeftInv

(* The five parts of FrameInv together are inductive on top of IInv. *)
LEMMA FrameInvariant == Spec => [](IInv /\ FrameInv)
<1>1. Init => IInv /\ FrameInv
  BY InitIInv, InitType, InitOrder, InitDuration, InitLeft DEF FrameInv
<1>2. IInv /\ FrameInv /\ [Next]_vars => (IInv /\ FrameInv)'
  <2>1. IInv /\ [Next]_vars => IInv'
    BY StepTick, StepSilence, StepLoaded, StepView, StepSeek, StepQueue DEF IInv
  <2> QED
    BY <2>1, StepType, StepOrder, StepDuration, StepLeft DEF FrameInv
<1> QED
  BY <1>1, <1>2, PTL DEF Spec

(* Pictures and sound go forward: what presentFrame (VC 1139) and the      *)
(* callback (VC 815) take next was decoded after what they took last,      *)
(* whatever seeks, pauses and warnings come between.                       *)
THEOREM PlaysForward == Spec => InOrder
<1>1. IInv /\ FrameInv /\ [Next]_vars =>
        [/\ shown' # shown => Before(shown, shown')
         /\ heard' # heard => Before(heard, heard')]_<<shown, heard>>
  BY StepForward DEF FrameInv
<1> QED
  BY <1>1, FrameInvariant, PTL DEF Spec, InOrder

(* VC 962, 875 and 1456: _bufferedDuration is the length of the sound in   *)
(* the array, up to the update in progress, until the unlocked reset meets *)
(* an update.                                                              *)
THEOREM DurationIsExact == Spec => []DurationExact
<1>1. FrameInv => DurationExact
  BY DEF FrameInv, DurationInv
<1> QED
  BY <1>1, FrameInvariant, PTL

(* VC 994, 1036 and 1395-1421: after a seek the buffer holds at most one   *)
(* call of decodeFrames from before it and one frame for each further seek.*)
THEOREM LeftoversBounded == Spec => []LeftoverBound
<1>1. FrameInv => LeftoverBound
  BY DEF FrameInv, LeftInv
<1> QED
  BY <1>1, FrameInvariant, PTL
====
