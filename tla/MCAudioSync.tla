----------------------------- MODULE MCAudioSync -----------------------------
(* AudioSync with a count of 3 instead of 20 and blocks of up to 30 samples.*)
EXTENDS AudioSync

MCBlockSizes == {0, 36, 100, 120}
MCDiffs == -9 .. 6
=============================================================================
