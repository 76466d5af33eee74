----------------------------- MODULE PcmPlayer -----------------------------
(***************************************************************************)
(* coding-279/player/pcm_player.c: main reads a file of samples block by   *)
(* block, SDL's audio thread calls read_audio_data to take them.  They     *)
(* share audio_buf, audio_pos and buffer_len without SDL_LockAudio, so     *)
(* every access to one of the three is a step of its own, and `+=` and     *)
(* `-=` are a load and a store.                                            *)
(*                                                                         *)
(* Addresses and lengths are numbers modulo AddressSpace (a size_t wraps). *)
(* A read outside audio_buf is undefined: it faults or yields noise.       *)
(***************************************************************************)
EXTENDS Integers, FiniteSetsExt

CONSTANTS
  BLOCK_SIZE,       \* line 4
  FileSize,         \* bytes of ./test.pcm
  Chunk,            \* spec.size: the len SDL passes to the callback
  Buffer,           \* the address malloc returns, line 52
  AddressSpace      \* 2^w

NULL == 0

ASSUME PcmAssumption ==
  /\ {BLOCK_SIZE, Chunk, Buffer} \subseteq Nat \ {0}
  /\ FileSize \in Nat
  /\ AddressSpace \in Nat
  /\ Buffer + BLOCK_SIZE + Chunk < AddressSpace

VARIABLES
  main,             \* where main is
  seen,             \* what it has read of line 83
  audio_pos,
  buffer_len,
  file_left,        \* bytes of the file not read yet
  freed,            \* audio_buf has been given to free
  cb,               \* where the audio thread is
  len,              \* the callback's len
  loaded,           \* what its `+=` or `-=` has loaded
  wild              \* history: the callback has read outside audio_buf

mainVars == <<main, seen, file_left, freed>>
cbVars == <<cb, len, loaded, wild>>
vars == <<mainVars, cbVars, audio_pos, buffer_len>>

Init ==
  /\ main = "open"
  /\ seen = 0
  /\ audio_pos = NULL
  /\ buffer_len = 0
  /\ file_left = FileSize
  /\ freed = FALSE
  /\ cb = "closed"
  /\ len = 0
  /\ loaded = 0
  /\ wild = FALSE

-----------------------------------------------------------------------------

(* Lines 39-43: SDL_Init fails and main returns at once. *)
InitFails ==
  /\ main = "open"
  /\ main' = "exit"
  /\ UNCHANGED <<seen, file_left, freed, cbVars, audio_pos, buffer_len>>

(* Lines 45-70: no file, no memory or no device. *)
OpenFails ==
  /\ main = "open"
  /\ main' = "free"
  /\ UNCHANGED <<seen, file_left, freed, cbVars, audio_pos, buffer_len>>

(* Lines 66-73: the device is opened and playing. *)
OpenAudio ==
  /\ main = "open"
  /\ main' = "read"
  /\ cb' = "idle"
  /\ UNCHANGED <<seen, file_left, freed, len, loaded, wild, audio_pos, buffer_len>>

(* Line 77: fread writes audio_buf and sets buffer_len. *)
ReadBlock ==
  /\ main = "read"
  /\ buffer_len' = Min({BLOCK_SIZE, file_left})
  /\ file_left' = file_left - buffer_len'
  /\ main' = "rewind"
  /\ UNCHANGED <<seen, freed, cbVars, audio_pos>>

(* Line 80. *)
Rewind ==
  /\ main = "rewind"
  /\ audio_pos' = Buffer
  /\ main' = "wait"
  /\ UNCHANGED <<seen, file_left, freed, cbVars, buffer_len>>

(* Mutant: the comparison admits equality. *)
PlayingOrEnd(pos, length) == pos <= (Buffer + length) % AddressSpace

(* Line 83: the loop's condition, with the wrapping sum the machine forms. *)
Playing(pos, length) == pos < (Buffer + length) % AddressSpace

(* Line 83 reads audio_pos and buffer_len, in an order C leaves open.      *)
LookAt ==
  /\ main = "wait"
  /\ \/ seen' = audio_pos /\ main' = "wait_len"
     \/ seen' = buffer_len /\ main' = "wait_pos"
  /\ UNCHANGED <<file_left, freed, cbVars, audio_pos, buffer_len>>

(* Lines 83-85: SDL_Delay while Playing. *)
Wait ==
  /\ \/ main = "wait_len"
        /\ main' = IF Playing(seen, buffer_len) THEN "wait" ELSE "again"
     \/ main = "wait_pos"
        /\ main' = IF Playing(audio_pos, seen) THEN "wait" ELSE "again"
  /\ seen' = 0
  /\ UNCHANGED <<file_left, freed, cbVars, audio_pos, buffer_len>>

(* Line 87: the outer loop's test. *)
Again ==
  /\ main = "again"
  /\ main' = IF buffer_len # 0 THEN "read" ELSE "close"
  /\ UNCHANGED <<seen, file_left, freed, cbVars, audio_pos, buffer_len>>

(* Mutant: the device is closed without waiting for its thread. *)
CloseAudioAtOnce ==
  /\ main = "close"
  /\ main' = "free"
  /\ UNCHANGED <<seen, file_left, freed, cbVars, audio_pos, buffer_len>>

(* Line 90: SDL_CloseAudio waits until the audio thread is gone            *)
(* (SDL_audio.c 1124-1126).                                                *)
CloseAudio ==
  /\ main = "close"
  /\ cb = "idle"
  /\ cb' = "closed"
  /\ main' = "free"
  /\ UNCHANGED <<seen, file_left, freed, len, loaded, wild, audio_pos, buffer_len>>

(* Lines 94-107. *)
Fail ==
  /\ main = "free"
  /\ freed' = TRUE
  /\ main' = "exit"
  /\ UNCHANGED <<seen, file_left, cbVars, audio_pos, buffer_len>>

Main ==
  \/ InitFails
  \/ OpenFails
  \/ OpenAudio
  \/ ReadBlock
  \/ Rewind
  \/ LookAt
  \/ Wait
  \/ Again
  \/ CloseAudio
  \/ Fail

-----------------------------------------------------------------------------

(* Lines 13-17: the device asks for samples. *)
Callback ==
  /\ cb = "idle"
  /\ buffer_len # 0
  /\ cb' = "limit"
  /\ UNCHANGED <<mainVars, len, loaded, wild, audio_pos, buffer_len>>

(* Line 19, the comparison. *)
LimitLen ==
  /\ cb = "limit"
  /\ \/ Chunk < buffer_len /\ len' = Chunk /\ cb' = "mix"
     \/ Chunk >= buffer_len /\ cb' = "rest" /\ UNCHANGED len
  /\ UNCHANGED <<mainVars, loaded, wild, audio_pos, buffer_len>>

(* Line 19, the second read: what is left is less than was asked for. *)
TakeRest ==
  /\ cb = "rest"
  /\ len' = buffer_len
  /\ cb' = "mix"
  /\ UNCHANGED <<mainVars, loaded, wild, audio_pos, buffer_len>>

(* What SDL_MixAudio reads is allocated, and fits in SDL's stream. *)
InBuffer ==
  /\ ~freed
  /\ len <= Chunk
  /\ audio_pos >= Buffer /\ audio_pos + len <= Buffer + BLOCK_SIZE

(* Line 21. *)
MixAudio ==
  /\ cb = "mix"
  /\ wild' = (wild \/ ~InBuffer)
  /\ \/ cb' = "load" /\ UNCHANGED main
     \/ ~InBuffer /\ cb' = "closed" /\ main' = "crashed"
  /\ UNCHANGED <<seen, file_left, freed, len, loaded, audio_pos, buffer_len>>

(* Line 23, the load. *)
LoadPos ==
  /\ cb = "load"
  /\ loaded' = audio_pos
  /\ cb' = "pos"
  /\ UNCHANGED <<mainVars, len, wild, audio_pos, buffer_len>>

(* Line 23, the store. *)
AdvancePos ==
  /\ cb = "pos"
  /\ audio_pos' = (loaded + len) % AddressSpace
  /\ cb' = "len"
  /\ UNCHANGED <<mainVars, len, loaded, wild, buffer_len>>

(* Line 24, the load. *)
LoadLen ==
  /\ cb = "len"
  /\ loaded' = buffer_len
  /\ cb' = "shrink"
  /\ UNCHANGED <<mainVars, len, wild, audio_pos, buffer_len>>

(* Line 24, the store, and the callback's return. *)
ShrinkLen ==
  /\ cb = "shrink"
  /\ buffer_len' = (loaded - len) % AddressSpace
  /\ cb' = "idle"
  /\ len' = 0
  /\ loaded' = 0
  /\ UNCHANGED <<mainVars, wild, audio_pos>>

read_audio_data ==
  \/ Callback
  \/ LimitLen
  \/ TakeRest
  \/ MixAudio
  \/ LoadPos
  \/ AdvancePos
  \/ LoadLen
  \/ ShrinkLen

(* main has returned; nothing runs any more. *)
Done == main \in {"exit", "crashed"} /\ UNCHANGED vars

Next == Main \/ (main # "crashed" /\ read_audio_data) \/ Done

(* The operating system runs main, and SDL keeps asking an open device for *)
(* samples.                                                                *)
Spec == Init /\ [][Next]_vars /\ WF_vars(Main) /\ WF_vars(read_audio_data)

-----------------------------------------------------------------------------

(* main gives audio_buf back (line 97) only when no callback can touch it: *)
(* SDL_CloseAudio stands between them on the way from the loop.            *)
NoUseAfterFree == freed => cb = "closed"

(* The player ends: every block is waited for no longer than it lasts, and *)
(* the empty read at the end of the file leaves both loops (lines 83-87),  *)
(* unless a race between the two threads has sent the callback outside the *)
(* buffer or wrapped buffer_len below zero.                                *)
MainReturns == <>(main = "exit" \/ wild \/ buffer_len > BLOCK_SIZE)

(* SDL_audio.h:303-305, "you should protect data structures that it        *)
(* accesses by calling SDL_LockAudio()": no call of read_audio_data finds  *)
(* audio_pos and buffer_len in a state that sends it outside the buffer.   *)
CallbackInBuffer == ~wild
=============================================================================
