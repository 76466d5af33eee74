------------------------------ MODULE MCAVSync ------------------------------
(* AVSync on arbitrary time stamps and clock readings.                     *)
EXTENDS AVSync

(* No time stamp, stamps closer than, at and beyond MAX_DELAY. *)
MCPts == {0, 1, 3, 6, 12}
MCRepeats == {0, 1}

(* Readings on both sides of every threshold, for every time stamp. *)
MCClock == {-3, 0, 1, 2, 4, 9, 20}
=============================================================================
