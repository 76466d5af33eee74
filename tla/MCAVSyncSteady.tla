--------------------------- MODULE MCAVSyncSteady ---------------------------
(* AVSyncSteady in ticks of 10 ms, at 25 frames a second, with a codec     *)
(* whose time_base is half a frame and every other frame without a stamp.  *)
EXTENDS AVSyncSteady

MCNone == {}
MCAudioStarts == {-10, -5, 0, 5, 10}
MCStallLengths == {3, 8}
=============================================================================
