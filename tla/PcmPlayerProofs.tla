-------------------------- MODULE PcmPlayerProofs --------------------------
(***************************************************************************)
(* Proof about PcmPlayer, for all sizes and all interleavings of main and  *)
(* the callback: audio_buf is not freed under the callback.  The race on   *)
(* audio_pos and buffer_len may send the callback anywhere; what keeps the *)
(* memory alive is where main is while the device is open.                 *)
(***************************************************************************)
EXTENDS PcmPlayer, TLAPS

(* The device is open only between SDL_OpenAudio and SDL_CloseAudio, and   *)
(* main frees the buffer only behind the latter; the callback does not     *)
(* start on a device that is closed.                                       *)
DeviceInv ==
  /\ main \in {"open", "free", "exit", "crashed"} => cb = "closed"
  /\ freed => main \in {"exit", "crashed"}

LEMMA InitDevice == Init => DeviceInv
BY DEF Init, DeviceInv

LEMMA StepDevice == DeviceInv /\ [Next]_vars => DeviceInv'
<1> SUFFICES ASSUME DeviceInv, [Next]_vars PROVE DeviceInv'
  OBVIOUS
<1> USE DEF DeviceInv, mainVars, cbVars
<1>1. CASE InitFails \/ OpenFails \/ OpenAudio
  BY <1>1 DEF InitFails, OpenFails, OpenAudio
<1>2. CASE ReadBlock \/ Rewind \/ LookAt \/ Wait \/ Again
  BY <1>2 DEF ReadBlock, Rewind, LookAt, Wait, Again
<1>3. CASE CloseAudio \/ Fail
  BY <1>3 DEF CloseAudio, Fail
<1>4. CASE read_audio_data
  <2>1. CASE MixAudio
    BY <2>1 DEF MixAudio
  <2>2. CASE Callback \/ LimitLen \/ TakeRest
    BY <2>2 DEF Callback, LimitLen, TakeRest
  <2>3. CASE LoadPos \/ AdvancePos \/ LoadLen \/ ShrinkLen
    BY <2>3 DEF LoadPos, AdvancePos, LoadLen, ShrinkLen
  <2> QED
    BY <1>4, <2>1, <2>2, <2>3 DEF read_audio_data
<1>5. CASE Done \/ UNCHANGED vars
  BY <1>5 DEF Done, vars
<1> QED
  BY <1>1, <1>2, <1>3, <1>4, <1>5 DEF Next, Main

(* main gives audio_buf back only when no callback can touch it.           *)
THEOREM NoUseAfterFreeHolds == Spec => []NoUseAfterFree
<1>1. DeviceInv => NoUseAfterFree
  BY DEF DeviceInv, NoUseAfterFree
<1> QED
  BY <1>1, InitDevice, StepDevice, PTL DEF Spec
=============================================================================
